---- MODULE Spec2Model ----
(***************************************************************************)
(* A model of the Jira -> OpenProject importer:                            *)
(*   - the relationship resolver (createRelationships, handleRelationships,*)
(*     retryMissingRelationships, createRelationship), and                 *)
(*   - the entity synchronizer (migrateIssues).                            *)
(* The two parts are separate specifications over one set of variables:    *)
(* SpecRel runs one createRelationships call, SpecMig runs a sequence of   *)
(* migrateIssues runs against one target system.                           *)
(***************************************************************************)
EXTENDS Integers, Sequences, FiniteSets, TLC

(***************************************************************************)
(* Bounds of the model.                                                    *)
(***************************************************************************)
\* number of source links (issue links and epic links) among the issues
MaxSrcLinks == 2
\* creation timestamps are 1..MaxTime
MaxTime == 2
\* number of target calls of one createRelationships call that do not answer
\* as a healthy, empty target would (failed lookups, refused creations)
MaxRelFaults == 1
\* number of migrateIssues runs against the target system
MaxRuns == 2
\* number of collaborator calls, over all runs, that fail
MaxMigFaults == 1
\* number of tokens of a rendered body
MaxBody == 3
\* number of block nodes of a document
MaxBlocks == 2
\* number of issues whose status and priority are mapped
MaxFields == 2
\* number of Jira projects
MaxProjects == 2
\* calls of createRelationship against a target with parent links
MaxCalls == 2

(***************************************************************************)
(* Source data of the relationship resolver.                               *)
(***************************************************************************)
\* the keys of the source issues
AllKeys == {"A", "B"}
\* the batches handed to createRelationships: both issues, or one of them
\* with the other outside the batch
Batches == {<<"A", "B">>, <<"B", "A">>, <<"A">>}

\* link.outwardIssue.fields?.created of a link whose embedded issue carries
\* no creation timestamp is undefined
Undefined == 0
Times == 1..MaxTime

\* A source link type with its two descriptions (type.outward, type.inward).
\* "Epic" stands for the epic link field customfield_10014.
LinkTypes == {"Blocks", "Relates", "Parent", "Duplicate", "Cloners"}

OutwardName(t) ==
    CASE t = "Blocks" -> "blocks"
      [] t = "Relates" -> "relates to"
      [] t = "Parent" -> "is parent of"
      [] t = "Duplicate" -> "duplicates"
      [] OTHER -> "clones"

InwardName(t) ==
    CASE t = "Blocks" -> "is blocked by"
      [] t = "Relates" -> "relates to"
      [] t = "Parent" -> "is child of"
      [] t = "Duplicate" -> "is duplicated by"
      [] OTHER -> "is cloned by"

\* A source link: the issue `out` carries it as an outward link naming `in`,
\* the issue `in` carries it as an inward link naming `out`.  An epic link
\* is carried by `out` only (its epic is `in`).
SrcLinks ==
    {f \in [type : LinkTypes \cup {"Epic"}, out : AllKeys, in : AllKeys] : f.out # f.in}

\* the subsets of S with at most n elements
RECURSIVE SubsetsUpTo(_, _)
SubsetsUpTo(S, n) ==
    IF n = 0 THEN {{}}
    ELSE LET P == SubsetsUpTo(S, n - 1) IN P \cup {T \cup {x} : T \in P, x \in S}

RECURSIVE SetToSeq(_)
SetToSeq(S) ==
    IF S = {} THEN <<>>
    ELSE LET x == CHOOSE y \in S : TRUE IN <<x>> \o SetToSeq(S \ {x})

Range(s) == {s[n] : n \in DOMAIN s}

VARIABLES
    \* ---- inputs of createRelationships
    issues,         \* the batch: the keys of the issues, in batch order
    srcLinks,       \* the source links among the issues
    created,        \* issue.fields.created of every issue
    embedCreated,   \* whether a link's embedded issue carries fields.created
    suppliedMap,    \* issueKeyToWorkPackageIdMap: key -> work package id
    suppliedAs,     \* what holds the supplied entries: "object" or "Map"
    \* ---- state of the relationship resolver
    issueToWorkPackageMap,  \* the module's key -> id map
    missingRelationships,   \* the module's Set, in insertion order
    retryRelationships,     \* the retry sweep's copy of the set
    relPc,          \* where createRelationships stands
    ri,             \* index of the issue being handled
    rj,             \* index of the link being handled
    rk,             \* index of the triple being retried
    relFaults,      \* faulty target answers so far
    \* ---- the target system and what was observed
    parents,        \* the parent link of every work package of the target
    edges,          \* relations of the target system
    requests,       \* calls of createRelationship, in order
    stillMissing    \* triples reported "Still missing" by the retry sweep

relVars == <<issues, srcLinks, created, embedCreated, suppliedMap, suppliedAs,
             issueToWorkPackageMap, missingRelationships, retryRelationships,
             relPc, ri, rj, rk, relFaults, parents, edges, requests, stillMissing>>

VARIABLES
    \* ---- inputs of migrateIssues
    batch,          \* jiraIssues: the keys of the source batch, in order
    content,        \* the fields of every source issue
    impl,           \* which migrateIssues runs: "migrate-all.js" or "index.js"
    \* ---- the target system
    target,         \* the work packages; a work package's id is its index
    \* ---- state of the runs
    runNo,          \* number of runs started
    mPc,            \* "idle" between runs, "running" inside migrateIssues
    isProd,         \* the run's isProd argument
    skipUpdates,    \* the run's skipUpdates argument
    cache,          \* openProjectWorkPackagesCache: key -> id
    idx,            \* index in batch of the next issue of the loop
    migMap,         \* the run's issueToWorkPackageMap: key -> id
    log,            \* the run's mutations, performed or "[DRY RUN] Would"
    reads,          \* the run's queries, per issue, of the two systems
    outcome,        \* how each issue of the run ended, in batch order
    counts,         \* the run's counters processed, skipped and errors
    startTarget,    \* the target system as the run found it
    prev,           \* the previous run, as it returned
    migFaults       \* failed collaborator calls so far

migVars == <<batch, content, impl, target, runNo, mPc, isProd, skipUpdates, cache,
             idx, migMap, log, reads, outcome, counts, startTarget, prev,
             migFaults>>

VARIABLES
    \* ---- the second pass over a rendered body (placeholder substitution)
    description,      \* issue.fields.description: the inline nodes rendered
    rawBody,          \* the rendered body: payload.description.raw
    attachmentIdMap,  \* the substitution table, in insertion order
    finalDescription, \* the body, substituted so far
    sk,               \* index in attachmentIdMap of the next entry
    subPc             \* "loop" inside the loop over the table, then "done"

subVars == <<description, rawBody, attachmentIdMap, finalDescription, sk, subPc>>

VARIABLES
    \* ---- one call of convertAtlassianDocumentToHtml
    doc,              \* the argument: an Atlassian document tree
    converted,        \* what the call returned, or that it threw
    convPc            \* "call" before the call, then "returned"

convVars == <<doc, converted, convPc>>

VARIABLES
    \* ---- the mapping of the status and the priority of the issues of a run
    workPackageStatuses,   \* the statuses of the target system, as fetched
    workPackagePriorities, \* the priorities of the target system, as fetched
    jiraFields,            \* status and priority of the issues not skipped
    unknownStatusCount,    \* the count of the run's summary
    links,                 \* status and priority id of each payload so far
    fi,                    \* index in jiraFields of the next issue
    fldPc                  \* "loop" inside the loop over the issues, then "done"

fldVars == <<workPackageStatuses, workPackagePriorities, jiraFields,
             unknownStatusCount, links, fi, fldPc>>

VARIABLES
    \* ---- migrateAll: the three phases over all projects
    jiraProjects,   \* the projects; matched: opProjectMap has the project's key
    stage,          \* "issues", "parents", "relationships", then "done" or "failed"
    pj,             \* index in jiraProjects of the next project of the phase
    events          \* what has been run so far, in order

allVars == <<jiraProjects, stage, pj, events>>

vars == <<relVars, migVars, subVars, convVars, fldVars, allVars>>

(***************************************************************************)
(* The issues as createRelationships reads them.                           *)
(***************************************************************************)
\* the created timestamp embedded in a link for issue k
Embedded(k) == IF embedCreated THEN created[k] ELSE Undefined

\* issue.fields.customfield_10014, or "" when the issue has no epic
EpicKey(k) ==
    IF \E f \in srcLinks : f.type = "Epic" /\ f.out = k
    THEN (CHOOSE f \in srcLinks : f.type = "Epic" /\ f.out = k).in
    ELSE ""

\* one element of issue.fields.issuelinks of issue k, for source link f
Occurrence(k, f) ==
    IF f.out = k
    THEN [dir |-> "outward", name |-> OutwardName(f.type), key |-> f.in,
          created |-> Embedded(f.in), fact |-> f]
    ELSE [dir |-> "inward", name |-> InwardName(f.type), key |-> f.out,
          created |-> Embedded(f.out), fact |-> f]

\* issue.fields.issuelinks of issue k
IssueLinks(k) ==
    LET mine == {f \in srcLinks : f.type # "Epic" /\ (f.out = k \/ f.in = k)}
        occ == SetToSeq(mine)
    IN [n \in DOMAIN occ |-> Occurrence(k, occ[n])]

(***************************************************************************)
(* handleRelationships: the mapping of a link to a relation type and the   *)
(* suppression of duplicates.                                              *)
(***************************************************************************)
\* a > b and a < b of JavaScript, where a comparison with undefined is false
JsGt(a, b) == a # Undefined /\ b # Undefined /\ a > b
JsLt(a, b) == a # Undefined /\ b # Undefined /\ a < b

\* RelationType with the two hierarchy cases confused
RelationTypeInverted(link) ==
    IF link.dir = "outward"
    THEN CASE link.name = "blocks" -> "blocks"
           [] link.name = "relates to" -> "relates"
           [] link.name = "is parent of" -> "partof"
           [] link.name = "duplicates" -> "duplicates"
           [] OTHER -> "relates"
    ELSE CASE link.name = "is blocked by" -> "blocked"
           [] link.name = "relates to" -> "relates"
           [] link.name = "is child of" -> "includes"
           [] link.name = "is duplicated by" -> "duplicated"
           [] OTHER -> "relates"

RelationType(link) ==
    IF link.dir = "outward"
    THEN CASE link.name = "blocks" -> "blocks"
           [] link.name = "relates to" -> "relates"
           [] link.name = "is parent of" -> "includes"
           [] link.name = "duplicates" -> "duplicates"
           [] OTHER -> "relates"
    ELSE CASE link.name = "is blocked by" -> "blocked"
           [] link.name = "relates to" -> "relates"
           [] link.name = "is child of" -> "partof"
           [] link.name = "is duplicated by" -> "duplicated"
           [] OTHER -> "relates"

ShouldSkip(k, link) ==
    IF link.dir = "outward"
    THEN link.name = "duplicates" /\ JsGt(created[k], link.created)
    ELSE link.name = "is duplicated by" /\ JsLt(created[k], link.created)

Triple(fromKey, toKey, type) == [fromKey |-> fromKey, toKey |-> toKey, type |-> type]

\* an add that does not look for the value first
SetAddNoDedup(set, x) == Append(set, x)

\* Set.prototype.add on the insertion-ordered set
SetAdd(set, x) == IF x \in Range(set) THEN set ELSE Append(set, x)

Has(map, k) == k \in DOMAIN map

(***************************************************************************)
(* The target system's relations.                                          *)
(***************************************************************************)
Responses == {"created", "taken", "circular", "error"}

\* GET /relations with the filters of checkExistingRelationship
RelationsFound(fromId, toId, type) ==
    \/ [from |-> fromId, to |-> toId, type |-> type] \in edges
    \/ type = "relates" /\ [from |-> toId, to |-> fromId, type |-> type] \in edges

\* the ids of the work packages of the target
WpIds == {1, 2}

\* a target none of whose work packages has a parent link
NoParents == [w \in WpIds |-> Undefined]

\* the parent links the target may hold: none, or one work package is the
\* parent of the other
ParentLinks ==
    {NoParents} \cup {[w \in WpIds |-> IF w = l[1] THEN l[2] ELSE Undefined] :
                        l \in {m \in WpIds \X WpIds : m[1] # m[2]}}

HasParents == \E w \in DOMAIN parents : parents[w] # Undefined

\* a parent check that inspects the other work package
checkParentRelationshipSwapped(fromId, toId, type, parentOk) ==
    LET workPackageToCheck == IF type = "partof" THEN toId ELSE fromId
        expectedParentId == IF type = "partof" THEN fromId ELSE toId
    IN parentOk /\ parents[workPackageToCheck] = expectedParentId

\* checkParentRelationship: a failing lookup is caught and answers false
checkParentRelationship(fromId, toId, type, parentOk) ==
    LET workPackageToCheck == IF type = "partof" THEN fromId ELSE toId
        expectedParentId == IF type = "partof" THEN toId ELSE fromId
    IN parentOk /\ parents[workPackageToCheck] = expectedParentId

\* a lookup with the filter of the declared direction only
checkExistingRelationshipForward(fromId, toId, type, parentOk, lookupOk) ==
    \/ /\ type \in {"partof", "includes"}
       /\ checkParentRelationship(fromId, toId, type, parentOk)
    \/ lookupOk /\ [from |-> fromId, to |-> toId, type |-> type] \in edges

\* checkExistingRelationship: the parent check for the two hierarchy types,
\* then the relations; a failing lookup is caught and answers false
checkExistingRelationship(fromId, toId, type, parentOk, lookupOk) ==
    \/ /\ type \in {"partof", "includes"}
       /\ checkParentRelationship(fromId, toId, type, parentOk)
    \/ lookupOk /\ RelationsFound(fromId, toId, type)

\* the answers the target may give to one createRelationship call; on a
\* target without parent links the parent check answers false whether its
\* lookup fails or not, so its failure is drawn only when a link exists
Answers ==
    {a \in [parentOk : BOOLEAN, lookupOk : BOOLEAN, resp : Responses] :
        /\ (a.parentOk /\ a.lookupOk /\ a.resp = "created") \/ relFaults < MaxRelFaults
        /\ a.parentOk \/ HasParents}

IsFault(a) == ~(a.parentOk /\ a.lookupOk /\ a.resp = "created")

\* a catch that recognises no message
AlreadyExistsNever(resp) == FALSE

\* lines 297-303: the error's messages say "already been taken" or "would
\* create a circular"
AlreadyExists(resp) == resp \in {"taken", "circular"}

\* how createRelationship ends: it returns on an existing relation (263-268),
\* logs the creation (291-292), logs "Skipping" and returns (305-310), or
\* logs the error (312-321); it never throws
Result(posted, resp) ==
    IF ~posted THEN "exists"
    ELSE IF resp = "created" THEN "created"
    ELSE IF AlreadyExists(resp) THEN "skipped"
    ELSE "failed"

\* createRelationship(fromId, toId, type), called for source link `fact` of
\* issue `k` in pass `phase`, under the target's answers a
createRelationship(fromId, toId, type, k, fact, phase, a) ==
    LET exists == checkExistingRelationship(fromId, toId, type, a.parentOk, a.lookupOk)
        posted == ~exists
    IN /\ requests' = Append(requests,
              [from |-> fromId, to |-> toId, type |-> type, issue |-> k,
               fact |-> fact, phase |-> phase, parentOk |-> a.parentOk,
               posted |-> posted,
               resp |-> IF posted THEN a.resp ELSE "exists",
               result |-> Result(posted, a.resp)])
       /\ edges' = IF posted /\ a.resp = "created"
                   THEN edges \cup {[from |-> fromId, to |-> toId, type |-> type]}
                   ELSE edges
       /\ relFaults' = IF IsFault(a) THEN relFaults + 1 ELSE relFaults

(***************************************************************************)
(* createRelationships                                                     *)
(***************************************************************************)
InDuplicate(k, S) == \E f \in S : f.type = "Duplicate" /\ (f.out = k \/ f.in = k)

WpId(k) == IF k = "A" THEN 1 ELSE 2

\* no body is being substituted
SubIdle ==
    /\ description = << >>
    /\ rawBody = << >>
    /\ attachmentIdMap = << >>
    /\ finalDescription = << >>
    /\ sk = 0
    /\ subPc = "off"

\* no document is being converted
ConvIdle ==
    /\ doc = << >>
    /\ converted = << >>
    /\ convPc = "off"

\* migrateAll is not running
AllIdle ==
    /\ jiraProjects = << >>
    /\ stage = "off"
    /\ pj = 0
    /\ events = << >>

\* no fields are being mapped
FldIdle ==
    /\ workPackageStatuses = << >>
    /\ workPackagePriorities = << >>
    /\ jiraFields = << >>
    /\ unknownStatusCount = 0
    /\ links = << >>
    /\ fi = 0
    /\ fldPc = "off"

\* migrateIssues is not running
MigIdle ==
    /\ batch = << >>
    /\ content = << >>
    /\ impl = "migrate-all.js"
    /\ target = << >>
    /\ runNo = 0
    /\ mPc = "off"
    /\ isProd = FALSE
    /\ skipUpdates = FALSE
    /\ cache = << >>
    /\ idx = 0
    /\ migMap = << >>
    /\ log = << >>
    /\ reads = << >>
    /\ outcome = << >>
    /\ counts = << >>
    /\ startTarget = << >>
    /\ prev = << >>
    /\ migFaults = 0

InitRel ==
    /\ issues \in Batches
    /\ srcLinks \in {S \in SubsetsUpTo(SrcLinks, MaxSrcLinks) :
            \A f, g \in S : f.type = "Epic" /\ g.type = "Epic" /\ f.out = g.out => f = g}
    \* the timestamps are read for the issues of a duplicates link only
    /\ created \in [AllKeys -> Times]
    /\ \A k \in AllKeys : created[k] = 1 \/ InDuplicate(k, srcLinks)
    /\ embedCreated \in BOOLEAN
    /\ embedCreated \/ \E k \in AllKeys : InDuplicate(k, srcLinks)
    /\ \E D \in SUBSET AllKeys : suppliedMap = [k \in D |-> WpId(k)]
    \* a plain object, or the Map that migrateIssues returns
    /\ suppliedAs \in {"object", "Map"}
    /\ suppliedAs = "object" \/ suppliedMap # << >>
    /\ issueToWorkPackageMap = << >>
    /\ missingRelationships = << >>
    /\ retryRelationships = << >>
    /\ relPc = "load"
    /\ ri = 1
    /\ rj = 0
    /\ rk = 0
    /\ relFaults = 0
    \* the batch is resolved against a target without parent links
    /\ parents = NoParents
    /\ edges = {}
    /\ requests = << >>
    /\ stillMissing = << >>
    /\ MigIdle
    /\ SubIdle
    /\ ConvIdle
    /\ FldIdle
    /\ AllIdle

\* a load that finds no entry in the supplied mapping
LoadMappingNothing ==
    /\ relPc = "load"
    /\ relPc' = "issue"
    /\ UNCHANGED <<issues, srcLinks, created, embedCreated, suppliedMap, suppliedAs, parents,
                   issueToWorkPackageMap, missingRelationships,
                   retryRelationships, ri, rj, rk, relFaults, edges, requests,
                   stillMissing>>
    /\ UNCHANGED <<migVars, subVars, convVars, fldVars, allVars>>

\* Object.entries(mapping): the own enumerable properties; a Map keeps its
\* entries elsewhere and has none
ObjectEntries(mapping, as) == IF as = "Map" THEN << >> ELSE mapping

\* lines 485-488: the entries of the supplied mapping are set into the
\* module's map
LoadMapping ==
    /\ relPc = "load"
    /\ LET entries == ObjectEntries(suppliedMap, suppliedAs)
       IN issueToWorkPackageMap' =
              [k \in DOMAIN issueToWorkPackageMap \cup DOMAIN entries |->
                  IF k \in DOMAIN entries THEN entries[k]
                  ELSE issueToWorkPackageMap[k]]
    /\ relPc' = "issue"
    /\ UNCHANGED <<issues, srcLinks, created, embedCreated, suppliedMap, suppliedAs, parents, missingRelationships,
                   retryRelationships, ri, rj, rk, relFaults, edges, requests,
                   stillMissing>>
    /\ UNCHANGED <<migVars, subVars, convVars, fldVars, allVars>>

\* where handleRelationships goes after the epic link of issue n
AfterEpic(n) ==
    IF Len(IssueLinks(issues[n])) = 0
    THEN /\ ri' = n + 1
         /\ rj' = 0
         /\ relPc' = IF n + 1 > Len(issues) THEN "retry" ELSE "issue"
    ELSE /\ ri' = n
         /\ rj' = 1
         /\ relPc' = "link"

\* handleRelationships(issue), lines 326-352: the early returns and the epic link
HandleIssue ==
    /\ relPc = "issue"
    /\ ri <= Len(issues)
    /\ LET k == issues[ri]
           epicKey == EpicKey(k)
       IN IF ~Has(issueToWorkPackageMap, k)
          THEN \* no work package for the issue itself: return
               /\ ri' = ri + 1
               /\ rj' = 0
               /\ relPc' = IF ri + 1 > Len(issues) THEN "retry" ELSE "issue"
               /\ UNCHANGED <<missingRelationships, edges, requests, relFaults>>
          ELSE IF epicKey = ""
          THEN /\ AfterEpic(ri)
               /\ UNCHANGED <<missingRelationships, edges, requests, relFaults>>
          ELSE IF Has(issueToWorkPackageMap, epicKey)
          THEN /\ \E a \in Answers :
                    createRelationship(issueToWorkPackageMap[k],
                        issueToWorkPackageMap[epicKey], "partof", k,
                        [type |-> "Epic", out |-> k, in |-> epicKey], "first", a)
               /\ AfterEpic(ri)
               /\ UNCHANGED missingRelationships
          ELSE /\ missingRelationships' =
                     SetAdd(missingRelationships, Triple(k, epicKey, "partof"))
               /\ AfterEpic(ri)
               /\ UNCHANGED <<edges, requests, relFaults>>
    /\ UNCHANGED <<issues, srcLinks, created, embedCreated, suppliedMap, suppliedAs, parents, issueToWorkPackageMap,
                   retryRelationships, rk, stillMissing>>
    /\ UNCHANGED <<migVars, subVars, convVars, fldVars, allVars>>

\* where handleRelationships goes after link m of issue n
AfterLink(n, m) ==
    IF m + 1 > Len(IssueLinks(issues[n]))
    THEN /\ ri' = n + 1
         /\ rj' = 0
         /\ relPc' = IF n + 1 > Len(issues) THEN "retry" ELSE "issue"
    ELSE /\ ri' = n
         /\ rj' = m + 1
         /\ relPc' = "link"

\* a round of the loop in which a creation request that failed is deferred
HandleLinkDefersFailure ==
    /\ relPc = "link"
    /\ LET k == issues[ri]
           link == IssueLinks(k)[rj]
           relationType == RelationType(link)
       IN IF ShouldSkip(k, link)
          THEN /\ AfterLink(ri, rj)
               /\ UNCHANGED <<missingRelationships, edges, requests, relFaults>>
          ELSE IF Has(issueToWorkPackageMap, link.key)
          THEN /\ \E a \in Answers :
                    /\ createRelationship(issueToWorkPackageMap[k],
                           issueToWorkPackageMap[link.key], relationType, k,
                           link.fact, "first", a)
                    /\ missingRelationships' =
                          IF requests'[Len(requests')].result = "failed"
                          THEN SetAdd(missingRelationships,
                                      Triple(k, link.key, relationType))
                          ELSE missingRelationships
               /\ AfterLink(ri, rj)
          ELSE /\ missingRelationships' =
                     SetAdd(missingRelationships, Triple(k, link.key, relationType))
               /\ AfterLink(ri, rj)
               /\ UNCHANGED <<edges, requests, relFaults>>
    /\ UNCHANGED <<issues, srcLinks, created, embedCreated, suppliedMap, suppliedAs, parents,
                   issueToWorkPackageMap, retryRelationships, rk, stillMissing>>
    /\ UNCHANGED <<migVars, subVars, convVars, fldVars, allVars>>

\* handleRelationships(issue), lines 354-444: one round of the loop over issuelinks
HandleLink ==
    /\ relPc = "link"
    /\ LET k == issues[ri]
           link == IssueLinks(k)[rj]
           relationType == RelationType(link)
       IN IF ShouldSkip(k, link)
          THEN /\ AfterLink(ri, rj)
               /\ UNCHANGED <<missingRelationships, edges, requests, relFaults>>
          ELSE IF Has(issueToWorkPackageMap, link.key)
          THEN /\ \E a \in Answers :
                    createRelationship(issueToWorkPackageMap[k],
                        issueToWorkPackageMap[link.key], relationType, k,
                        link.fact, "first", a)
               /\ AfterLink(ri, rj)
               /\ UNCHANGED missingRelationships
          ELSE /\ missingRelationships' =
                     SetAdd(missingRelationships, Triple(k, link.key, relationType))
               /\ AfterLink(ri, rj)
               /\ UNCHANGED <<edges, requests, relFaults>>
    /\ UNCHANGED <<issues, srcLinks, created, embedCreated, suppliedMap, suppliedAs, parents, issueToWorkPackageMap,
                   retryRelationships, rk, stillMissing>>
    /\ UNCHANGED <<migVars, subVars, convVars, fldVars, allVars>>

\* a sweep that starts by dropping the module's map
RetryStartForgets ==
    /\ relPc = "retry"
    /\ issueToWorkPackageMap' = << >>
    /\ IF Len(missingRelationships) = 0
       THEN /\ relPc' = "done"
            /\ UNCHANGED <<retryRelationships, missingRelationships, rk>>
       ELSE /\ retryRelationships' = missingRelationships
            /\ missingRelationships' = << >>
            /\ rk' = 1
            /\ relPc' = "sweep"
    /\ UNCHANGED <<issues, srcLinks, created, embedCreated, suppliedMap, suppliedAs, parents,
                   ri, rj, relFaults, edges, requests, stillMissing>>
    /\ UNCHANGED <<migVars, subVars, convVars, fldVars, allVars>>

\* retryMissingRelationships, lines 448-456: return at once, or copy and clear
RetryStart ==
    /\ relPc = "retry"
    /\ IF Len(missingRelationships) = 0
       THEN /\ relPc' = "done"
            /\ UNCHANGED <<retryRelationships, missingRelationships, rk>>
       ELSE /\ retryRelationships' = missingRelationships
            /\ missingRelationships' = << >>
            /\ rk' = 1
            /\ relPc' = "sweep"
    /\ UNCHANGED <<issues, srcLinks, created, embedCreated, suppliedMap, suppliedAs, parents, issueToWorkPackageMap,
                   ri, rj, relFaults, edges, requests, stillMissing>>
    /\ UNCHANGED <<migVars, subVars, convVars, fldVars, allVars>>

\* the source link a deferred triple came from
FactOf(rel) ==
    CHOOSE f \in srcLinks :
        \/ f.type = "Epic" /\ f.out = rel.fromKey /\ f.in = rel.toKey /\ rel.type = "partof"
        \/ /\ f.type # "Epic"
           /\ (f.out = rel.fromKey /\ f.in = rel.toKey) \/ (f.in = rel.fromKey /\ f.out = rel.toKey)
           /\ RelationType(Occurrence(rel.fromKey, f)) = rel.type

\* a round of the retry loop that defers the unresolved triple again
RetryStepRequeue ==
    /\ relPc = "sweep"
    /\ rk <= Len(retryRelationships)
    /\ missingRelationships' = SetAdd(missingRelationships, retryRelationships[rk])
    /\ rk' = rk + 1
    /\ relPc' = IF rk + 1 > Len(retryRelationships) THEN "done" ELSE "sweep"
    /\ UNCHANGED <<issues, srcLinks, created, embedCreated, suppliedMap, suppliedAs, parents, issueToWorkPackageMap,
                   retryRelationships, ri, rj, relFaults, edges, requests, stillMissing>>
    /\ UNCHANGED <<migVars, subVars, convVars, fldVars, allVars>>

\* retryMissingRelationships, lines 458-478: one round of the loop
RetryStep ==
    /\ relPc = "sweep"
    /\ rk <= Len(retryRelationships)
    /\ LET rel == retryRelationships[rk]
       IN IF Has(issueToWorkPackageMap, rel.fromKey) /\ Has(issueToWorkPackageMap, rel.toKey)
          THEN /\ \E a \in Answers :
                    createRelationship(issueToWorkPackageMap[rel.fromKey],
                        issueToWorkPackageMap[rel.toKey], rel.type, rel.fromKey,
                        FactOf(rel), "retry", a)
               /\ UNCHANGED stillMissing
          ELSE /\ stillMissing' = Append(stillMissing, rel)
               /\ UNCHANGED <<edges, requests, relFaults>>
    /\ rk' = rk + 1
    /\ relPc' = IF rk + 1 > Len(retryRelationships) THEN "done" ELSE "sweep"
    /\ UNCHANGED <<issues, srcLinks, created, embedCreated, suppliedMap, suppliedAs, parents, issueToWorkPackageMap,
                   missingRelationships, retryRelationships, ri, rj>>
    /\ UNCHANGED <<migVars, subVars, convVars, fldVars, allVars>>

NextRel == LoadMapping \/ HandleIssue \/ HandleLink \/ RetryStart \/ RetryStep

SpecRel == InitRel /\ [][NextRel]_vars

(***************************************************************************)
(* The entity synchronizer: migrateIssues.                                 *)
(*                                                                         *)
(* The target system is the sequence of its work packages; a work          *)
(* package's id is its index.  A source issue is its key and its content:  *)
(* attachments, the files its description refers to, comments, watchers.   *)
(***************************************************************************)
\* findExistingWorkPackage's "no work package"
Null == 0
\* the id of the work package a dry run would have created
DRY_RUN_WP_ID == -1

MigBatches == {<<"A">>, <<"A", "A">>, <<"A", "B">>}

\* the Jira users: u1 has an OpenProject user with an API key, u2 has an
\* OpenProject user without one, u9 has no OpenProject user; NoUser is an
\* absent creator or author
NoUser == ""
userMapping == [u \in {"u1", "u2"} |-> IF u = "u1" THEN "op1" ELSE "op2"]
commentUserMapping == [o \in {"op1"} |-> "login1"]
DefaultUser == "default"

\* commentUserMapping[userMapping[jiraUser.accountId]] of a user that is
\* not absent: the impersonated user, the default API user when undefined
OpUser(jiraUser) ==
    IF jiraUser \in DOMAIN userMapping /\ userMapping[jiraUser] \in DOMAIN commentUserMapping
    THEN commentUserMapping[userMapping[jiraUser]]
    ELSE DefaultUser

\* attAuthors and cmtAuthors: the author of each attachment and comment
Bare == [atts |-> << >>, refs |-> {}, cmts |-> << >>, watchers |-> << >>,
         creator |-> "u9", attAuthors |-> << >>, cmtAuthors |-> << >>]
Rich == [atts |-> <<"f1">>, refs |-> {"f1"}, cmts |-> <<"c1">>,
         watchers |-> <<"u1", "u2">>,
         creator |-> "u1", attAuthors |-> <<"u9">>, cmtAuthors |-> <<"u1">>]
Files == [atts |-> <<"f1">>, refs |-> {}, cmts |-> << >>, watchers |-> << >>,
          creator |-> "u1", attAuthors |-> <<"u1">>, cmtAuthors |-> << >>]
\* two attachments of one issue with the same filename
Twice == [atts |-> <<"f1", "f1">>, refs |-> {}, cmts |-> << >>, watchers |-> << >>,
          creator |-> "u9", attAuthors |-> <<"u9", "u9">>, cmtAuthors |-> << >>]
Contents == {Bare, Rich, Files, Twice}
\* an issue without a creator, and one with a comment without an author
Orphan == [Bare EXCEPT !.creator = NoUser]
Anonymous == [Bare EXCEPT !.cmts = <<"c1">>, !.cmtAuthors = <<NoUser>>]
\* the issues of a batch: any of Contents, or A is one of the two above
ContentMaps ==
    [AllKeys -> Contents]
    \cup {[k \in AllKeys |-> IF k = "A" THEN c ELSE Bare] : c \in {Orphan, Anonymous}}

\* the work package createWorkPackage makes of the payload of issue k
NewWp(k) == [key |-> k, desc |-> "raw", atts |-> << >>, cmts |-> << >>, watchers |-> {},
             lockVersion |-> 0]

\* the comment migrate-all.js posts: the html and the marker of the Jira id
MarkedComment(id) == [src |-> id, form |-> "html", marker |-> id]
\* the comment index.js posts: "<author> wrote on <date>:" and the text
FormattedComment(id) == [src |-> id, form |-> "text", marker |-> ""]

\* the work package a complete live run of migrate-all.js left for Rich when
\* u1 was its only watcher
RichWp(k) == [key |-> k, desc |-> "final", atts |-> <<"f1">>,
              cmts |-> <<MarkedComment("c1")>>, watchers |-> {"u1"},
              lockVersion |-> 1]

TargetInits == {<< >>, <<NewWp("A")>>, <<RichWp("A")>>}

Impls == {"migrate-all.js", "index.js"}

\* the collaborator call of an issue's processing that fails
FaultPoints == {"lookup", "write", "conflict", "listAtt", "upload", "final",
                "finalConflict", "listCmt", "comment", "watchers", "addWatcher"}

\* createRelationships is not running
RelIdle ==
    /\ issues = << >>
    /\ srcLinks = {}
    /\ created = [k \in AllKeys |-> 1]
    /\ embedCreated = TRUE
    /\ suppliedMap = << >>
    /\ suppliedAs = "object"
    /\ issueToWorkPackageMap = << >>
    /\ missingRelationships = << >>
    /\ retryRelationships = << >>
    /\ relPc = "off"
    /\ ri = 0
    /\ rj = 0
    /\ rk = 0
    /\ relFaults = 0
    /\ parents = NoParents
    /\ edges = {}
    /\ requests = << >>
    /\ stillMissing = << >>

\* lines 646-648: processed, skipped and errors start at 0
NoneCounted == [processed |-> 0, skipped |-> 0, errors |-> 0]

\* counters in which an issue that ends in the catch was counted as
\* processed before
CountedEarly(c, st) ==
    IF st = "Skipped" THEN [c EXCEPT !.skipped = @ + 1]
    ELSE IF st = "Errored" THEN [c EXCEPT !.processed = @ + 1, !.errors = @ + 1]
    ELSE [c EXCEPT !.processed = @ + 1]

\* the counters after an issue that ended as st: skipped++ of line 672,
\* processed++ of line 957 as the last statement of the try, errors++ of
\* line 966 in the catch
Counted(c, st) ==
    IF st = "Skipped" THEN [c EXCEPT !.skipped = @ + 1]
    ELSE IF st = "Errored" THEN [c EXCEPT !.errors = @ + 1]
    ELSE [c EXCEPT !.processed = @ + 1]

\* what migrateIssues returned, and what it did; returned is false when the
\* process stopped inside the run
RunRecord == [runNo |-> runNo, isProd |-> isProd, skipUpdates |-> skipUpdates,
              map |-> migMap, log |-> log, reads |-> reads, outcome |-> outcome,
              start |-> startTarget, returned |-> (mPc = "idle")]

InitMig ==
    /\ RelIdle
    /\ SubIdle
    /\ ConvIdle
    /\ FldIdle
    /\ AllIdle
    /\ batch \in MigBatches
    /\ content \in ContentMaps
    /\ \A k \in AllKeys : k \in Range(batch) \/ content[k] = Bare
    /\ impl \in Impls
    /\ target \in TargetInits
    /\ runNo = 0
    /\ mPc = "idle"
    /\ isProd = FALSE
    /\ skipUpdates = FALSE
    /\ cache = << >>
    /\ idx = 0
    /\ migMap = << >>
    /\ log = << >>
    /\ reads = << >>
    /\ outcome = << >>
    /\ counts = NoneCounted
    /\ startTarget = << >>
    /\ prev = RunRecord
    /\ migFaults = 0

\* whether the writes of this run reach the target system: migrate-all.js
\* branches on isProd, index.js never reads it
Live == isProd \/ impl = "index.js"

\* findExistingWorkPackage: workPackages[0] of the work packages with the key
FindExisting(tgt, k) ==
    IF \E i \in DOMAIN tgt : tgt[i].key = k
    THEN CHOOSE i \in DOMAIN tgt :
            tgt[i].key = k /\ \A j \in DOMAIN tgt : tgt[j].key = k => i <= j
    ELSE Null

\* a fetch that finds no work package
CacheEmpty(tgt) == << >>

\* getOpenProjectWorkPackages: sorted by id, a later work package replaces
\* an earlier one with the same Jira key
CacheOf(tgt) ==
    [k \in {tgt[i].key : i \in DOMAIN tgt} |->
        CHOOSE i \in DOMAIN tgt :
            tgt[i].key = k /\ \A j \in DOMAIN tgt : tgt[j].key = k => j <= i]

\* Map.prototype.set
MapSet(map, k, v) == [x \in DOMAIN map \cup {k} |-> IF x = k THEN v ELSE map[x]]

\* one mutation of the run: performed, or logged as "[DRY RUN] Would"
\* ok: the call returned, it did not throw
Mutation(op, k, wp, arg) ==
    [op |-> op, key |-> k, wp |-> wp, arg |-> arg, real |-> Live, ok |-> TRUE,
     version |-> 0, current |-> 0, answer |-> "ok", actor |-> DefaultUser,
     pos |-> idx]

\* one query made while issue k is processed
Read(call, k) == [call |-> call, key |-> k]

\* whether the calls are made as an impersonated user: lines 737-738,
\* 797-798 and 899 of migrate-all.js; index.js has no such calls
Impersonates == impl = "migrate-all.js" /\ isProd

\* the user a write is made as, given the Jira user the code looks up
ActorOf(jiraUser) == IF Impersonates THEN OpUser(jiraUser) ELSE DefaultUser

\* a TypeError of the issue's processing: the catch of lines 958-967
Throw(s) == [s EXCEPT !.st = "Errored"]

\* a read of the issue's processing throws: the catch of lines 958-967
Fail(s) == [s EXCEPT !.st = "Errored", !.hit = TRUE]

\* the write m throws
FailCall(s, m) == [Fail(s) EXCEPT !.log = Append(@, [m EXCEPT !.ok = FALSE])]

\* lines 656-665: the cache in incremental mode, a live query otherwise;
\* findExistingWorkPackage answers null when its query fails
ExistenceCheck(k, flt) ==
    IF skipUpdates
    THEN IF Has(cache, k) THEN cache[k] ELSE Null
    ELSE IF flt = "lookup" THEN Null ELSE FindExisting(target, k)

\* an update that goes through whatever the work package's version is
updateWorkPackageBlind(s, op, k, id, arg, desc, failed, conflict) ==
    LET fetched == s.tgt[id].lockVersion
        atWrite == IF conflict THEN [s.tgt EXCEPT ![id].lockVersion = @ + 1] ELSE s.tgt
        m == [Mutation(op, k, id, arg) EXCEPT !.version = fetched,
                                              !.current = atWrite[id].lockVersion]
        asked == [s EXCEPT !.reads = Append(@, Read("getWorkPackage", k)),
                           !.tgt = atWrite, !.hit = @ \/ conflict]
    IN IF failed
       THEN FailCall(asked, m)
       ELSE [asked EXCEPT !.tgt[id].desc = desc,
                          !.tgt[id].lockVersion = @ + 1,
                          !.log = Append(@, m)]

\* updateWorkPackage(id, payload) of openproject-client.js: the GET of the
\* work package, then the PATCH with the lockVersion the GET answered.  The
\* target refuses a PATCH whose lockVersion is not the work package's; with
\* `conflict` another client updates the work package between the two calls.
\* version: the lockVersion sent; current: the work package's at the PATCH.
updateWorkPackage(s, op, k, id, arg, desc, failed, conflict) ==
    LET fetched == s.tgt[id].lockVersion
        atWrite == IF conflict THEN [s.tgt EXCEPT ![id].lockVersion = @ + 1] ELSE s.tgt
        m == [Mutation(op, k, id, arg) EXCEPT !.version = fetched,
                                              !.current = atWrite[id].lockVersion,
                                              !.actor = ActorOf(content[k].creator)]
        asked == [s EXCEPT !.reads = Append(@, Read("getWorkPackage", k)),
                           !.tgt = atWrite]
    IN IF failed \/ fetched # atWrite[id].lockVersion
       THEN FailCall(asked, m)
       ELSE [asked EXCEPT !.tgt[id].desc = desc,
                          !.tgt[id].lockVersion = @ + 1,
                          !.log = Append(@, m)]

\* lines 734-771: create or update, or the dry run's stand-in, and map.set
WriteWorkPackage(s, k, existing, flt) ==
    IF Impersonates /\ content[k].creator = NoUser
    THEN Throw(s)
    ELSE IF Live
    THEN IF existing # Null
         THEN LET u == updateWorkPackage(s, "update", k, existing, "payload", "raw",
                                         flt = "write", flt = "conflict")
              IN IF u.st # "run" THEN u
                 ELSE [u EXCEPT !.wp = existing, !.map = MapSet(@, k, existing)]
         ELSE IF flt = "write"
         THEN FailCall(s, [Mutation("create", k, existing, "payload")
                              EXCEPT !.actor = ActorOf(content[k].creator)])
         ELSE [s EXCEPT !.tgt = Append(@, NewWp(k)),
                        !.log = Append(@, [Mutation("create", k, Len(s.tgt) + 1, "payload")
                                              EXCEPT !.actor = ActorOf(content[k].creator)]),
                        !.wp = Len(s.tgt) + 1,
                        !.map = MapSet(@, k, Len(s.tgt) + 1)]
    ELSE LET id == IF existing # Null THEN existing ELSE DRY_RUN_WP_ID
         IN [s EXCEPT !.log = Append(@, Mutation(IF existing # Null THEN "update" ELSE "create",
                                                 k, id, "payload")),
                      !.wp = id,
                      !.map = MapSet(@, k, id)]

\* lines 783-813: the loop over the issue's attachments, from the i-th on
RECURSIVE UploadLoop(_, _, _, _, _, _)
UploadLoop(s, k, atts, i, existingNames, flt) ==
    IF i > Len(atts) \/ s.st # "run"
    THEN s
    ELSE IF atts[i] \in existingNames
    THEN UploadLoop([s EXCEPT !.attNames = @ \cup {atts[i]}],
                    k, atts, i + 1, existingNames, flt)
    ELSE IF Live /\ flt = "upload" /\ ~s.hit
    THEN FailCall(s, [Mutation("upload", k, s.wp, atts[i])
                         EXCEPT !.actor = ActorOf(content[k].creator)])
    ELSE UploadLoop(
            [s EXCEPT !.tgt = IF Live
                              THEN [@ EXCEPT ![s.wp].atts = Append(@, atts[i])]
                              ELSE @,
                      !.log = Append(@, [Mutation("upload", k, s.wp, atts[i])
                                            EXCEPT !.actor = ActorOf(content[k].creator)]),
                      !.attNames = @ \cup {atts[i]}],
            k, atts, i + 1, existingNames, flt)

\* lines 773-814: getExistingAttachments answers [] when its query fails,
\* and a dry run of migrate-all.js does not ask
Attachments(s, k, c, flt) ==
    IF s.st # "run" \/ Len(c.atts) = 0
    THEN s
    ELSE LET asked == IF Live
                      THEN [s EXCEPT !.hit = @ \/ flt = "listAtt",
                                     !.reads = Append(@, Read("getExistingAttachments", k))]
                      ELSE s
             existingNames == IF Live /\ flt # "listAtt"
                              THEN Range(s.tgt[s.wp].atts)
                              ELSE {}
         IN UploadLoop(asked, k, c.atts, 1, existingNames, flt)

\* a second update whenever the substitution table has an entry
FinalizeAlways(s, k, c, flt) ==
    IF s.st # "run" \/ impl = "index.js" \/ s.attNames = {}
    THEN s
    ELSE [s EXCEPT !.tgt = IF isProd THEN [@ EXCEPT ![s.wp].desc = "final"] ELSE @,
                   !.log = Append(@, Mutation("final", k, s.wp, "description"))]

\* lines 816-862 of migrate-all.js: the second, description-only update
Finalize(s, k, c, flt) ==
    IF s.st # "run" \/ impl = "index.js" \/ c.refs \cap s.attNames = {}
    THEN s
    ELSE IF c.creator = NoUser
    THEN Throw(s)
    ELSE IF isProd
    THEN updateWorkPackage(s, "final", k, s.wp, "description", "final",
                           flt = "final", flt = "finalConflict")
    ELSE [s EXCEPT !.log = Append(@, Mutation("final", k, s.wp, "description"))]

\* whether comment id is among the work package's comments: migrate-all.js
\* looks for the marker (lines 870-877, 900), index.js for the text (269)
AlreadyMigrated(existingComments, id) ==
    IF impl = "index.js"
    THEN FormattedComment(id) \in Range(existingComments)
    ELSE \E e \in Range(existingComments) : e.marker # "" /\ e.marker = id

\* lines 879-936: the loop over the issue's comments, from the i-th on
RECURSIVE CommentLoop(_, _, _, _, _, _)
CommentLoop(s, k, cmts, i, existingComments, flt) ==
    IF i > Len(cmts) \/ s.st # "run"
    THEN s
    ELSE IF content[k].cmtAuthors[i] = NoUser
    THEN Throw(s)
    ELSE IF AlreadyMigrated(existingComments, cmts[i])
    THEN CommentLoop(s, k, cmts, i + 1, existingComments, flt)
    ELSE IF Live /\ flt = "comment" /\ ~s.hit
    THEN FailCall(s, [Mutation("comment", k, s.wp, cmts[i])
                         EXCEPT !.actor = ActorOf(content[k].cmtAuthors[i])])
    ELSE LET posted == IF impl = "index.js" THEN FormattedComment(cmts[i])
                       ELSE MarkedComment(cmts[i])
         IN CommentLoop(
                [s EXCEPT !.tgt = IF Live
                                  THEN [@ EXCEPT ![s.wp].cmts = Append(@, posted)]
                                  ELSE @,
                          !.log = Append(@, [Mutation("comment", k, s.wp, cmts[i])
                                                EXCEPT !.actor =
                                                    ActorOf(content[k].cmtAuthors[i])])],
                k, cmts, i + 1, existingComments, flt)

\* lines 864-937: getExistingComments answers [] when its query fails, and
\* a dry run of migrate-all.js does not ask
Comments(s, k, c, flt) ==
    IF s.st # "run" \/ Len(c.cmts) = 0
    THEN s
    ELSE LET asked == IF Live
                      THEN [s EXCEPT !.hit = @ \/ flt = "listCmt",
                                     !.reads = Append(@, Read("getExistingComments", k))]
                      ELSE s
             existingComments == IF Live /\ flt # "listCmt"
                                 THEN s.tgt[s.wp].cmts
                                 ELSE << >>
         IN CommentLoop(asked, k, c.cmts, 1, existingComments, flt)

\* the target system answers 409 to the POST of a user who watches already
Duplicate(s, w) == Live /\ w \in s.tgt[s.wp].watchers

\* a loop over the watchers in which the 409 of addWatcher is thrown on
RECURSIVE WatcherLoopStrict(_, _, _, _, _)
WatcherLoopStrict(s, k, ws, i, flt) ==
    IF i > Len(ws)
    THEN s
    ELSE IF Duplicate(s, ws[i])
    THEN [s EXCEPT !.st = "Errored",
                   !.log = Append(@, [Mutation("watcher", k, s.wp, ws[i])
                                         EXCEPT !.answer = "409"])]
    ELSE WatcherLoopStrict(
             [s EXCEPT !.tgt = IF Live
                               THEN [@ EXCEPT ![s.wp].watchers = @ \cup {ws[i]}]
                               ELSE @,
                       !.log = Append(@, Mutation("watcher", k, s.wp, ws[i]))],
             k, ws, i + 1, flt)

\* lines 943-954: the loop over the watchers; addWatcher swallows its errors,
\* the 409 of a user who watches already among them
RECURSIVE WatcherLoop(_, _, _, _, _)
WatcherLoop(s, k, ws, i, flt) ==
    IF i > Len(ws)
    THEN s
    ELSE LET failed == Live /\ flt = "addWatcher" /\ ~s.hit
             dup == ~failed /\ Duplicate(s, ws[i])
         IN WatcherLoop(
                [s EXCEPT !.tgt = IF Live /\ ~failed
                                  THEN [@ EXCEPT ![s.wp].watchers = @ \cup {ws[i]}]
                                  ELSE @,
                          !.log = Append(@, [Mutation("watcher", k, s.wp, ws[i])
                                                EXCEPT !.ok = ~failed,
                                                       !.answer = IF dup THEN "409"
                                                                  ELSE "ok"]),
                          !.hit = @ \/ failed],
                k, ws, i + 1, flt)

\* lines 939-955: getIssueWatchers is asked in a dry run too
Watchers(s, k, c, flt) ==
    IF s.st # "run" \/ Len(c.watchers) = 0
    THEN s
    ELSE LET asked == [s EXCEPT !.reads = Append(@, Read("getIssueWatchers", k))]
         IN IF flt = "watchers"
            THEN Fail(asked)
            ELSE WatcherLoop(asked, k, c.watchers, 1, flt)

\* a loop body without the skip of lines 667-674
ProcessNoSkip(k, flt) ==
    LET existing == ExistenceCheck(k, flt)
        s0 == [tgt |-> target, map |-> migMap, log |-> log, reads |-> reads,
               wp |-> Null, attNames |-> {}, st |-> "run",
               hit |-> (flt = "lookup" /\ ~skipUpdates)]
        s5 == Watchers(Comments(Finalize(Attachments(
                  WriteWorkPackage(s0, k, existing, flt),
                  k, content[k], flt), k, content[k], flt), k, content[k], flt),
                  k, content[k], flt)
    IN IF s5.st # "run" THEN s5
       ELSE [s5 EXCEPT !.st = IF existing # Null THEN "Updated" ELSE "Created"]

\* a loop body that sets the map when the issue has been processed to the end
ProcessMapAtEnd(k, flt) ==
    LET existing == ExistenceCheck(k, flt)
        s0 == [tgt |-> target, map |-> migMap, log |-> log,
               reads |-> IF skipUpdates THEN reads
                         ELSE Append(reads, Read("findExistingWorkPackage", k)),
               wp |-> Null,
               attNames |-> {}, st |-> "run",
               hit |-> (flt = "lookup" /\ ~skipUpdates)]
    IN IF existing # Null /\ skipUpdates
       THEN [s0 EXCEPT !.map = MapSet(@, k, existing), !.st = "Skipped"]
       ELSE LET s5 == Watchers(Comments(Finalize(Attachments(
                          WriteWorkPackage(s0, k, existing, flt),
                          k, content[k], flt), k, content[k], flt), k, content[k], flt),
                          k, content[k], flt)
            IN IF s5.st # "run"
               THEN [s5 EXCEPT !.map = migMap]
               ELSE [s5 EXCEPT !.st = IF existing # Null THEN "Updated" ELSE "Created"]

\* lines 653-967: the body of the loop for issue k, with the call flt failing
Process(k, flt) ==
    LET existing == ExistenceCheck(k, flt)
        s0 == [tgt |-> target, map |-> migMap, log |-> log,
               reads |-> IF skipUpdates THEN reads
                         ELSE Append(reads, Read("findExistingWorkPackage", k)),
               wp |-> Null,
               attNames |-> {}, st |-> "run",
               hit |-> (flt = "lookup" /\ ~skipUpdates)]
    IN IF existing # Null /\ skipUpdates
       THEN [s0 EXCEPT !.map = MapSet(@, k, existing), !.st = "Skipped"]
       ELSE LET s1 == WriteWorkPackage(s0, k, existing, flt)
                s2 == Attachments(s1, k, content[k], flt)
                s3 == Finalize(s2, k, content[k], flt)
                s4 == Comments(s3, k, content[k], flt)
                s5 == Watchers(s4, k, content[k], flt)
            IN IF s5.st # "run"
               THEN s5
               ELSE [s5 EXCEPT !.st = IF existing # Null THEN "Updated" ELSE "Created"]

\* lines 572-650: a call of migrateIssues, up to the loop
StartRun ==
    /\ mPc \in {"idle", "crashed"}
    /\ runNo < MaxRuns
    /\ runNo' = runNo + 1
    /\ isProd' \in BOOLEAN
    /\ skipUpdates' \in BOOLEAN
    /\ cache' = IF skipUpdates' THEN CacheOf(target) ELSE << >>
    /\ idx' = 1
    /\ migMap' = << >>
    /\ log' = << >>
    /\ reads' = << >>
    /\ outcome' = << >>
    /\ counts' = NoneCounted
    /\ startTarget' = target
    /\ prev' = RunRecord
    /\ mPc' = "running"
    /\ UNCHANGED <<batch, content, impl, target, migFaults>>
    /\ UNCHANGED <<relVars, subVars, convVars, fldVars, allVars>>

\* a round of the loop whose error leaves the loop
ProcessIssueAbort ==
    /\ mPc = "running"
    /\ idx <= Len(batch)
    /\ \E flt \in FaultPoints \cup {"none"} :
          LET s == Process(batch[idx], flt)
          IN /\ flt = "none" \/ (s.hit /\ migFaults < MaxMigFaults)
             /\ target' = s.tgt
             /\ migMap' = s.map
             /\ log' = s.log
             /\ reads' = s.reads
             /\ outcome' = Append(outcome, s.st)
             /\ counts' = Counted(counts, s.st)
             /\ migFaults' = IF s.hit THEN migFaults + 1 ELSE migFaults
             /\ idx' = IF s.st = "Errored" THEN Len(batch) + 1 ELSE idx + 1
    /\ UNCHANGED <<batch, content, impl, runNo, mPc, isProd, skipUpdates, cache,
                   startTarget, prev>>
    /\ UNCHANGED <<relVars, subVars, convVars, fldVars, allVars>>

\* lines 652-968: one round of the loop over jiraIssues
ProcessIssue ==
    /\ mPc = "running"
    /\ idx <= Len(batch)
    /\ \E flt \in FaultPoints \cup {"none"} :
          LET s == Process(batch[idx], flt)
          IN /\ flt = "none" \/ (s.hit /\ migFaults < MaxMigFaults)
             /\ target' = s.tgt
             /\ migMap' = s.map
             /\ log' = s.log
             /\ reads' = s.reads
             /\ outcome' = Append(outcome, s.st)
             /\ counts' = Counted(counts, s.st)
             /\ migFaults' = IF s.hit THEN migFaults + 1 ELSE migFaults
    /\ idx' = idx + 1
    /\ UNCHANGED <<batch, content, impl, runNo, mPc, isProd, skipUpdates, cache,
                   startTarget, prev>>
    /\ UNCHANGED <<relVars, subVars, convVars, fldVars, allVars>>

\* lines 970-982: the summary, and the map is returned
EndRun ==
    /\ mPc = "running"
    /\ idx > Len(batch)
    /\ mPc' = "idle"
    /\ UNCHANGED <<batch, content, impl, target, runNo, isProd, skipUpdates, cache,
                   idx, migMap, log, reads, outcome, counts, startTarget, prev,
                   migFaults>>
    /\ UNCHANGED <<relVars, subVars, convVars, fldVars, allVars>>

NextMig == StartRun \/ ProcessIssue \/ EndRun

SpecMig == InitMig /\ [][NextMig]_vars

(***************************************************************************)
(* The synchronizer when the process that runs it may stop.                *)
(***************************************************************************)
\* the calls at which the process may stop inside an issue
CrashPoints == {"write", "upload", "final", "comment", "watchers"}

\* the call was made and answered
Answered(m) == m.ok

\* the process of a live run stops: between two issues, or inside the issue
\* at idx, after the calls that come before the call at
Crash ==
    /\ mPc = "running"
    /\ Live
    /\ \/ UNCHANGED <<target, migMap, log, reads>>
       \/ /\ idx <= Len(batch)
          /\ \E at \in CrashPoints :
                LET s == Process(batch[idx], at)
                IN /\ s.hit
                   /\ target' = s.tgt
                   /\ migMap' = s.map
                   /\ log' = SelectSeq(s.log, Answered)
                   /\ reads' = s.reads
    /\ mPc' = "crashed"
    /\ UNCHANGED <<batch, content, impl, runNo, isProd, skipUpdates, cache, idx,
                   outcome, counts, startTarget, prev, migFaults>>
    /\ UNCHANGED <<relVars, subVars, convVars, fldVars, allVars>>

NextCrash == StartRun \/ ProcessIssue \/ EndRun \/ Crash

SpecCrash == InitMig /\ [][NextCrash]_vars

(***************************************************************************)
(* Properties of the relationship resolver.                                *)
(***************************************************************************)
InBatch(k) == k \in Range(issues)
Pos(k) == CHOOSE n \in DOMAIN issues : issues[n] = k

\* issue k carries an occurrence of source link f
Declares(k, f) == IF f.type = "Epic" THEN f.out = k ELSE k \in {f.out, f.in}
\* the issue that k's occurrence of f names
Named(k, f) == IF f.out = k THEN f.in ELSE f.out
\* k's occurrence of f is suppressed by handleRelationships
Suppressed(k, f) == f.type # "Epic" /\ ShouldSkip(k, Occurrence(k, f))
\* the createRelationship calls made for k's occurrence of f
RequestsFor(k, f) == {n \in DOMAIN requests : requests[n].issue = k /\ requests[n].fact = f}
\* the createRelationship calls made for either occurrence of f
RequestsOfPair(f) == {n \in DOMAIN requests : requests[n].fact = f}

\* a duplicates link both of whose issues are in the batch and resolved
ResolvedDuplicatePair(f) ==
    /\ f.type = "Duplicate"
    /\ InBatch(f.out) /\ InBatch(f.in)
    /\ Has(issueToWorkPackageMap, f.out) /\ Has(issueToWorkPackageMap, f.in)

\* C3: for a symmetric duplicates link between two resolved issues of the
\* batch, one createRelationships call attempts the creation of exactly one
\* edge for the pair, whatever the order of the two creation timestamps
\* (stated for links that carry the timestamp of the linked issue, and for
\* two timestamps that differ).
DuplicatePairOneAttempt ==
    relPc = "done" =>
        \A f \in srcLinks :
            ResolvedDuplicatePair(f) /\ embedCreated /\ created[f.out] # created[f.in]
                => Cardinality(RequestsOfPair(f)) = 1

\* the earlier-created issue of the pair of f
Earlier(f) == IF created[f.out] < created[f.in] THEN f.out ELSE f.in

\* C4: for a symmetric duplicates pair the occurrence that is realized is the
\* one of the earlier-created issue, and the occurrence of the later-created
\* issue is the one suppressed.
EarlierOccurrenceRealized ==
    relPc = "done" =>
        \A f \in srcLinks :
            ResolvedDuplicatePair(f) /\ embedCreated /\ created[f.out] # created[f.in] =>
                /\ {requests[n].issue : n \in RequestsOfPair(f)} = {Earlier(f)}
                /\ \A k \in {f.out, f.in} : Suppressed(k, f) <=> k # Earlier(f)

\* issue k declares itself a child of the issue it names in f: by its epic
\* link, or by an inward "is child of" link
ChildOf(k, f) ==
    \/ f.type = "Epic" /\ f.out = k
    \/ f.type = "Parent" /\ f.in = k

\* C5: every edge-creation request issued for a child-of link of A naming B,
\* in the first pass or in the retry sweep, is of type partof with A as its
\* from endpoint and B as its to endpoint; and every partof request is the
\* one of a declared child-of link, from the child to the parent.
DirectionFidelity ==
    \A n \in DOMAIN requests :
        LET r == requests[n] IN
        /\ ChildOf(r.issue, r.fact) =>
              /\ r.type = "partof"
              /\ r.from = suppliedMap[r.issue]
              /\ r.to = suppliedMap[Named(r.issue, r.fact)]
        /\ r.type = "partof" =>
              \E f \in srcLinks : \E k \in AllKeys :
                  /\ ChildOf(k, f)
                  /\ Has(suppliedMap, k) /\ Has(suppliedMap, Named(k, f))
                  /\ r.from = suppliedMap[k]
                  /\ r.to = suppliedMap[Named(k, f)]

\* a posted partof request of a child that comes before its parent in the
\* batch, and one of a child that comes after it
DirectionFidelityWitness ==
    /\ relPc = "done"
    /\ \E n \in DOMAIN requests :
          /\ ChildOf(requests[n].issue, requests[n].fact)
          /\ requests[n].posted
          /\ InBatch(Named(requests[n].issue, requests[n].fact))
          /\ Pos(requests[n].issue) < Pos(Named(requests[n].issue, requests[n].fact))

\* the target holds a relation between the work packages of a and b
EdgeBetween(a, b) ==
    /\ Has(issueToWorkPackageMap, a) /\ Has(issueToWorkPackageMap, b)
    /\ \E e \in edges :
          {e.from, e.to} = {issueToWorkPackageMap[a], issueToWorkPackageMap[b]}

NoGrowthInRetry ==
    relPc \in {"retry", "sweep"} =>
        Range(missingRelationships') \subseteq Range(missingRelationships)

NoTripleTwice ==
    \A m, n \in DOMAIN missingRelationships :
        missingRelationships[m] = missingRelationships[n] => m = n

\* C10: missingRelationships never holds the same triple twice, and from the
\* start of retryMissingRelationships on no triple is added to it.
DeferredSetInvariant ==
    []NoTripleTwice /\ [][NoGrowthInRetry]_vars

\* the retry sweep has started on one triple that two links of the same issue
\* (its epic link and an "is child of" link) had deferred
DeferredSetWitness ==
    /\ relPc = "sweep"
    /\ Len(retryRelationships) = 1
    /\ \E f, g \in srcLinks :
          /\ f.type = "Epic" /\ g.type = "Parent"
          /\ f.out = g.in /\ f.in = g.out
          /\ InBatch(f.out)
          /\ retryRelationships[1] = Triple(f.out, f.in, "partof")

(***************************************************************************)
(* Properties of the entity synchronizer.                                  *)
(***************************************************************************)
\* the createWorkPackage calls of a run
CreateCalls(l) == {i \in DOMAIN l : l[i].op = "create" /\ l[i].real}

\* a live incremental run has returned and an incremental run over the same
\* batch has returned after it
IncrementalPair ==
    /\ mPc = "idle"
    /\ runNo >= 2
    /\ prev.returned
    /\ prev.isProd
    /\ prev.skipUpdates
    /\ skipUpdates

\* C1, as stated: the second of two incremental runs over the same batch, the
\* first of them live, calls createWorkPackage not once and returns the
\* identity map the first returned.
Idempotence ==
    IncrementalPair => CreateCalls(log) = {} /\ migMap = prev.map

\* C1, amended: the second run calls createWorkPackage only for keys the first
\* run returned no entry for, every entry the first run returned is an entry
\* of the second run's map, and when no issue of the first run ended in an
\* error the second run creates nothing and returns an equal map.
IdempotenceOfCompletedRun ==
    IncrementalPair =>
        /\ \A i \in CreateCalls(log) : ~Has(prev.map, log[i].key)
        /\ \A k \in DOMAIN prev.map : Has(migMap, k) /\ migMap[k] = prev.map[k]
        /\ "Errored" \notin Range(prev.outcome) =>
              CreateCalls(log) = {} /\ migMap = prev.map

\* the first run created a work package for each of two issues, the second
\* run skipped both
IdempotenceOfCompletedRunWitness ==
    /\ IncrementalPair
    /\ Cardinality(CreateCalls(prev.log)) = 2
    /\ "Errored" \notin Range(prev.outcome)
    /\ outcome = <<"Skipped", "Skipped">>
    /\ DOMAIN migMap = {"A", "B"}

\* C2: the target system never holds two work packages with the same Jira
\* key in the correlation custom field.
NoDuplicateTargets ==
    \A i, j \in DOMAIN target : target[i].key = target[j].key => i = j

\* C7: in a run with isProd = false no mutating call reaches the target
\* system.
DryRunNoMutation ==
    ~isProd => \A i \in DOMAIN log : ~log[i].real

\* the mutations of a run in order, each with its arguments, without the
\* work package's id and without whether it was performed
Attempted(l) == [i \in DOMAIN l |-> [op |-> l[i].op, key |-> l[i].key, arg |-> l[i].arg]]

\* C8: a dry run and a live run over the same batch, with the same
\* skipUpdates, that found the target system in the same state and in which
\* no call failed, attempt the same sequence of mutations.
DryRunEquivalence ==
    /\ mPc = "idle"
    /\ runNo >= 2
    /\ prev.returned
    /\ ~prev.isProd
    /\ isProd
    /\ prev.skipUpdates = skipUpdates
    /\ prev.start = startTarget
    /\ migFaults = 0
    => Attempted(prev.log) = Attempted(log)

\* within a run, a step keeps every entry of the identity map
MapEntriesKept ==
    mPc = "running" /\ mPc' = "running" =>
        \A k \in DOMAIN migMap : Has(migMap', k) /\ migMap'[k] = migMap[k]

\* C9: within one run, the id the identity map holds for a key never changes.
MapWriteOnce == [][MapEntriesKept]_vars

(***************************************************************************)
(* Properties of the retry sweep and of the deferral.                      *)
(***************************************************************************)
\* how often the sweep has dealt with triple t: reported it as still missing,
\* or asked createRelationship for it
SweepCount(t) ==
    Cardinality({n \in DOMAIN stillMissing : stillMissing[n] = t})
    + Cardinality({n \in DOMAIN requests :
            /\ requests[n].phase = "retry"
            /\ requests[n].issue = t.fromKey
            /\ requests[n].type = t.type
            /\ Named(t.fromKey, requests[n].fact) = t.toKey})

\* the sweep runs after handleRelationships has run for every issue, deals
\* with the triples in order, each once, and leaves nothing deferred
SweepInOrder ==
    /\ relPc \in {"retry", "sweep", "done"} => ri > Len(issues)
    /\ \A n \in DOMAIN requests : requests[n].phase = "retry" => relPc \in {"sweep", "done"}
    /\ stillMissing # << >> => relPc \in {"sweep", "done"}
    /\ relPc \in {"sweep", "done"} =>
          /\ missingRelationships = << >>
          /\ \A n \in DOMAIN retryRelationships :
                SweepCount(retryRelationships[n]) = IF n < rk THEN 1 ELSE 0
    /\ relPc = "done" /\ retryRelationships # << >> => rk = Len(retryRelationships) + 1

\* the sweep is entered once and the first pass is not entered after it
SweepOnce ==
    /\ relPc \in {"sweep", "done"} => relPc' \in {"sweep", "done"}
    /\ relPc = "retry" => relPc' \in {"retry", "sweep", "done"}
    /\ relPc = "done" => UNCHANGED <<requests, stillMissing, missingRelationships>>
    /\ relPc = "sweep" => retryRelationships' = retryRelationships

\* C11: one createRelationships call makes one retry sweep, after
\* handleRelationships has run for every issue of the batch; the sweep deals
\* with every deferred triple exactly once, and a triple still unresolved is
\* reported and not attempted again.
OneRetrySweep ==
    []SweepInOrder /\ [][SweepOnce]_vars

\* a call over two issues has returned after a sweep over two deferred
\* triples, both reported as still missing
OneRetrySweepWitness ==
    /\ relPc = "done"
    /\ Len(issues) = 2
    /\ Len(retryRelationships) = 2
    /\ Len(stillMissing) = 2

\* the triple handleRelationships makes of k's occurrence of f
TripleOf(k, f) ==
    Triple(k, Named(k, f),
           IF f.type = "Epic" THEN "partof" ELSE RelationType(Occurrence(k, f)))

\* C12: when the first pass is over, every link declared by an issue of the
\* batch and not suppressed, one of whose endpoints (the declaring issue or
\* the issue it names) has no entry in the identity map, is in
\* missingRelationships.
EitherEndpointDeferred ==
    relPc = "retry" =>
        \A f \in srcLinks : \A k \in AllKeys :
            /\ InBatch(k) /\ Declares(k, f) /\ ~Suppressed(k, f)
            /\ ~Has(issueToWorkPackageMap, k) \/ ~Has(issueToWorkPackageMap, Named(k, f))
            => TripleOf(k, f) \in Range(missingRelationships)

\* the triples deferred, swept or reported as still missing
DeferredTriples ==
    Range(missingRelationships) \cup Range(retryRelationships) \cup Range(stillMissing)

\* C13: a request the target answers with "already been taken" or "would
\* create a circular dependency" ends as skipped, as for a success: it is not
\* logged as an error and its triple is not deferred or reported as missing.
RefusalIsSuccess ==
    \A n \in DOMAIN requests :
        requests[n].posted /\ requests[n].resp \in {"taken", "circular"} =>
            /\ requests[n].result = "skipped"
            /\ TripleOf(requests[n].issue, requests[n].fact) \notin DeferredTriples

\* the call has returned after the target answered a posted request with
\* "would create a circular dependency"
RefusalIsSuccessWitness ==
    /\ relPc = "done"
    /\ \E n \in DOMAIN requests :
          /\ requests[n].posted
          /\ requests[n].resp = "circular"
          /\ requests[n].result = "skipped"

(***************************************************************************)
(* Properties of the steps of the entity synchronizer.                     *)
(***************************************************************************)
IsWrite(m) == m.op \in {"create", "update"}

\* C14: whatever step of an issue fails, every issue of the batch ends in
\* one of the four terminal states, in batch order: the loop has dealt with
\* every issue before the current one, the calls of the run are those of
\* issues not skipped, made in batch order, every issue that ends as
\* Created or Updated has had its create-or-update step, and the run ends
\* with an outcome for every issue of the batch.
FailureIsolation ==
    /\ mPc = "running" => Len(outcome) = idx - 1
    /\ mPc = "idle" /\ runNo >= 1 => Len(outcome) = Len(batch)
    /\ mPc \in {"running", "idle"} =>
          /\ \A n \in DOMAIN outcome :
                outcome[n] \in {"Created", "Updated", "Skipped", "Errored"}
          /\ \A i \in DOMAIN log :
                /\ log[i].pos \in DOMAIN outcome
                /\ log[i].key = batch[log[i].pos]
                /\ outcome[log[i].pos] # "Skipped"
                /\ \A j \in DOMAIN log : i < j => log[i].pos <= log[j].pos
          /\ \A n \in DOMAIN outcome :
                outcome[n] \in {"Created", "Updated"} =>
                    \E i \in DOMAIN log :
                        IsWrite(log[i]) /\ log[i].pos = n /\ log[i].ok

\* the first issue of the batch ended in an error and the second was created
FailureIsolationWitness ==
    /\ mPc = "idle"
    /\ batch = <<"A", "B">>
    /\ outcome = <<"Errored", "Created">>
    /\ Has(migMap, "B")

\* the target system held a work package for key k when the run began
ExistingAtStart(k) == \E i \in DOMAIN startTarget : startTarget[i].key = k

\* C15: in incremental mode an issue whose key a work package of the target
\* carried when the run began ends as Skipped; the identity map holds for it
\* the id of such a work package, the run logs no write and no query for it,
\* and its work packages are as the run found them. No other issue is
\* skipped.
SkipFrame ==
    mPc \in {"running", "idle"} /\ runNo >= 1 =>
        \A n \in DOMAIN outcome :
            LET k == batch[n] IN
            /\ outcome[n] = "Skipped" <=> skipUpdates /\ ExistingAtStart(k)
            /\ outcome[n] = "Skipped" =>
                  /\ Has(migMap, k)
                  /\ migMap[k] \in DOMAIN startTarget
                  /\ startTarget[migMap[k]].key = k
                  /\ \A i \in DOMAIN log : log[i].key # k
                  /\ \A i \in DOMAIN reads : reads[i].key # k
                  /\ \A i \in DOMAIN startTarget :
                        startTarget[i].key = k => target[i] = startTarget[i]

\* a live incremental run has skipped A, which has an attachment, a comment
\* and a watcher, and has created B
SkipFrameWitness ==
    /\ mPc = "idle"
    /\ isProd /\ skipUpdates
    /\ batch = <<"A", "B">>
    /\ content["A"] = Rich
    /\ outcome = <<"Skipped", "Created">>
    /\ migMap = [k \in {"A", "B"} |-> IF k = "A" THEN 1 ELSE 2]

\* C16: under migrate-all.js no work package of the target carries two
\* comments with the marker of the same source comment.
CommentOncePerMarker ==
    impl = "migrate-all.js" =>
        \A i \in DOMAIN target : \A m, n \in DOMAIN target[i].cmts :
            /\ target[i].cmts[m].marker # ""
            /\ target[i].cmts[m].marker = target[i].cmts[n].marker
            => m = n

\* C17: no work package of the target carries two attachments with the same
\* filename: a file is uploaded only if the work package has none of its
\* name at the time of the upload.
UploadOncePerFilename ==
    \A i \in DOMAIN target : \A m, n \in DOMAIN target[i].atts :
        target[i].atts[m] = target[i].atts[n] => m = n

(***************************************************************************)
(* The second pass over a rendered body: lines 816-825 for the description *)
(* and 907-913 for a comment.  A body is a sequence of tokens: text, the   *)
(* placeholder the converter emits for a media node, or the image tag of   *)
(* an attachment.                                                          *)
(***************************************************************************)
Filenames == {"f1", "f2"}
AttachmentIds == {"att-1", "DRY_RUN_ATTACHMENT_ID"}

Text == [kind |-> "text", v |-> "t"]
\* line 1047: {{jira-attachment-placeholder:<alt>}}
Placeholder(filename) == [kind |-> "placeholder", v |-> filename]
\* lines 821, 910: the img tag with the attachment's content url
ImageTag(attachmentId) == [kind |-> "img", v |-> attachmentId]

Tokens == {Text} \cup {Placeholder(f) : f \in Filenames}

RECURSIVE SeqsUpTo(_, _)
SeqsUpTo(S, n) ==
    IF n = 0 THEN {<< >>}
    ELSE LET shorter == SeqsUpTo(S, n - 1)
         IN shorter \cup {Append(b, x) : b \in {c \in shorter : Len(c) = n - 1}, x \in S}

Bodies == SeqsUpTo(Tokens, MaxBody)

\* a Map from filename to attachment id, as the sequence of its entries
Tables ==
    {t \in SeqsUpTo([filename : Filenames, id : AttachmentIds], Cardinality(Filenames)) :
        \A m, n \in DOMAIN t : t[m].filename = t[n].filename => m = n}

\* String.prototype.replace with a string pattern: the first occurrence
Replace(body, placeholder, imageTag) ==
    IF \E i \in DOMAIN body : body[i] = placeholder
    THEN LET first == CHOOSE i \in DOMAIN body :
                          body[i] = placeholder /\ \A j \in 1..(i - 1) : body[j] # placeholder
         IN [body EXCEPT ![first] = imageTag]
    ELSE body

InitSub ==
    /\ RelIdle
    /\ MigIdle
    /\ ConvIdle
    /\ FldIdle
    /\ AllIdle
    \* the body is taken as rendered, whatever it was rendered from
    /\ description = << >>
    /\ rawBody \in Bodies
    /\ attachmentIdMap \in Tables
    /\ finalDescription = rawBody
    /\ sk = 1
    /\ subPc = "loop"

\* lines 819-823: one round of the loop over attachmentIdMap.entries()
SubstituteEntry ==
    /\ subPc = "loop"
    /\ sk <= Len(attachmentIdMap)
    /\ finalDescription' = Replace(finalDescription,
                                   Placeholder(attachmentIdMap[sk].filename),
                                   ImageTag(attachmentIdMap[sk].id))
    /\ sk' = sk + 1
    /\ UNCHANGED <<description, rawBody, attachmentIdMap, subPc>>
    /\ UNCHANGED <<relVars, migVars, convVars, fldVars, allVars>>

\* line 825: the loop is over, the body is compared with the raw one
SubstituteDone ==
    /\ subPc = "loop"
    /\ sk > Len(attachmentIdMap)
    /\ subPc' = "done"
    /\ UNCHANGED <<description, rawBody, attachmentIdMap, finalDescription, sk>>
    /\ UNCHANGED <<relVars, migVars, convVars, fldVars, allVars>>

NextSub == SubstituteEntry \/ SubstituteDone

SpecSub == InitSub /\ [][NextSub]_vars

\* the id the table holds for filename
IdOf(filename) ==
    (CHOOSE e \in Range(attachmentIdMap) : e.filename = filename).id

InTable(filename) == \E e \in Range(attachmentIdMap) : e.filename = filename

\* C18: after the second pass every placeholder whose filename has an entry
\* in the table is replaced by the image tag of that entry, every other
\* token is as it was, and with an empty table the body is unchanged.
PlaceholderSubstitution ==
    subPc = "done" =>
        /\ Len(finalDescription) = Len(rawBody)
        /\ \A i \in DOMAIN rawBody :
              finalDescription[i] =
                  IF rawBody[i].kind = "placeholder" /\ InTable(rawBody[i].v)
                  THEN ImageTag(IdOf(rawBody[i].v))
                  ELSE rawBody[i]
        /\ attachmentIdMap = << >> => finalDescription = rawBody

\* the create-or-update steps of the run: each opens the part of the log
\* that belongs to one issue
WriteIdx == {i \in DOMAIN log : IsWrite(log[i])}

\* the write that opens the part of the log entry i belongs to
SegmentOf(i) == CHOOSE w \in WriteIdx : w <= i /\ \A v \in WriteIdx : v <= i => v <= w

\* the position in the batch of the issue whose part of the log write w opens
IssueOf(w) == log[w].pos

\* the second updates of the part of the log that write w opens
FinalsOf(w) == {i \in DOMAIN log : log[i].op = "final" /\ SegmentOf(i) = w}

\* the substitution changes the description of the issue at position p: the
\* html of migrate-all.js has a placeholder for one of the issue's files
DescriptionDiffers(p) ==
    /\ impl = "migrate-all.js"
    /\ content[batch[p]].refs \cap Range(content[batch[p]].atts) # {}

\* C19: a second update is issued for an issue only if the substitution
\* changed its description, and is issued for every such issue that ends as
\* Created or Updated; it is issued once, carries the description only, and
\* comes after every upload and before every comment of the issue.
FinalizationOrder ==
    mPc \in {"running", "idle"} =>
        /\ \A w \in WriteIdx :
              /\ FinalsOf(w) # {} => DescriptionDiffers(IssueOf(w))
              /\ DescriptionDiffers(IssueOf(w))
                    /\ outcome[IssueOf(w)] \in {"Created", "Updated"}
                    => Cardinality(FinalsOf(w)) = 1
              /\ Cardinality(FinalsOf(w)) <= 1
        /\ \A i \in DOMAIN log : log[i].op = "final" =>
              /\ log[i].arg = "description"
              /\ \A j \in DOMAIN log : SegmentOf(j) = SegmentOf(i) =>
                    /\ log[j].op = "upload" => j < i
                    /\ log[j].op = "comment" => i < j

\* a live run has created an issue: upload, second update, comment, in this
\* order
FinalizationOrderWitness ==
    /\ mPc = "idle"
    /\ isProd
    /\ outcome = <<"Created">>
    /\ \E i, j, l \in DOMAIN log :
          /\ i < j /\ j < l
          /\ log[i].op = "upload" /\ log[j].op = "final" /\ log[l].op = "comment"
          /\ log[i].ok /\ log[j].ok /\ log[l].ok

\* the updates of the run that reached the target system
UpdateIdx == {i \in DOMAIN log : log[i].real /\ log[i].op \in {"update", "final"}}

\* C20: every update is preceded by its own fetch of the work package and
\* sends the lockVersion fetched; when no other client has changed the work
\* package in between, that is the work package's version at the write; an
\* update that succeeds sent the current version, and an update whose version
\* is stale fails, ends its issue as Errored and is the last step of that
\* issue in the run.
OptimisticLocking ==
    mPc \in {"running", "idle"} =>
        /\ Cardinality({r \in DOMAIN reads : reads[r].call = "getWorkPackage"})
              = Cardinality(UpdateIdx)
        /\ \A i \in UpdateIdx :
              /\ log[i].ok => log[i].version = log[i].current
              /\ migFaults = 0 => log[i].ok /\ log[i].version = log[i].current
              /\ log[i].version # log[i].current =>
                    /\ ~log[i].ok
                    /\ outcome[IssueOf(SegmentOf(i))] = "Errored"
                    /\ \A j \in DOMAIN log : j > i => SegmentOf(j) # SegmentOf(i)

\* a live run over two issues: another client changed the first issue's
\* work package between the fetch and the update, the second was created
OptimisticLockingWitness ==
    /\ mPc = "idle"
    /\ batch = <<"A", "B">>
    /\ outcome = <<"Errored", "Created">>
    /\ log[1].op = "update"
    /\ log[1].version # log[1].current
    /\ ~log[1].ok

(***************************************************************************)
(* Properties of the error handling of the entity synchronizer.            *)
(***************************************************************************)
\* the errors count of the run's summary (line 966, 979)
Errors == Cardinality({p \in DOMAIN outcome : outcome[p] = "Errored"})

\* C21: every collaborator call that fails while an issue is processed ends
\* that issue as Errored and is counted in the summary: in the first run
\* the errors count is the number of calls that failed.
EveryFailureCounted ==
    mPc \in {"running", "idle"} /\ runNo = 1 => Errors = migFaults

\* the addWatcher calls the target system answered with 409
DuplicateWatcherCalls == {i \in DOMAIN log : log[i].op = "watcher" /\ log[i].answer = "409"}

\* C22: an addWatcher call answered with 409 returns normally: the issue
\* does not end as Errored, and every watcher of the issue that comes after
\* it is still posted and, unless its own call fails, watches the work
\* package.
DuplicateWatcherIsSuccess ==
    mPc \in {"running", "idle"} =>
        \A i \in DuplicateWatcherCalls :
            LET ws == content[log[i].key].watchers
                n == CHOOSE m \in DOMAIN ws : ws[m] = log[i].arg
            IN /\ outcome[IssueOf(SegmentOf(i))] \in {"Created", "Updated"}
               /\ \A m \in DOMAIN ws : m > n =>
                     \E j \in DOMAIN log :
                         /\ j = i + (m - n)
                         /\ log[j].op = "watcher"
                         /\ log[j].key = log[i].key
                         /\ log[j].arg = ws[m]
                         /\ log[j].ok => ws[m] \in target[log[j].wp].watchers

\* u1 watches the work package already; u2 is added after the 409 for u1
DuplicateWatcherIsSuccessWitness ==
    /\ mPc = "idle"
    /\ \E i \in DuplicateWatcherCalls :
          /\ log[i].arg = "u1"
          /\ i < Len(log)
          /\ log[i + 1].op = "watcher"
          /\ log[i + 1].arg = "u2"
          /\ log[i + 1].answer = "ok"
          /\ log[i + 1].ok
          /\ "u2" \in target[log[i].wp].watchers
          /\ "u2" \notin startTarget[log[i].wp].watchers

(***************************************************************************)
(* The rich-text converter: convertAtlassianDocumentToHtml, lines 985-1058 *)
(* of migrate-all.js.  A node is a record; js tells a null from a string   *)
(* from an object, hasAttrs and hasText tell whether the object has the    *)
(* property, and an absent type, level, alt or href is the empty string or *)
(* Undefined.  The html is the sequence of the pieces the code joins.      *)
(***************************************************************************)
NoMarks == << >>
NoContent == << >>

Node(type, hasAttrs, level, mediaType, alt, hasText, text, marks, children) ==
    [js |-> "object", type |-> type, hasAttrs |-> hasAttrs, level |-> level,
     mediaType |-> mediaType, alt |-> alt, hasText |-> hasText, text |-> text,
     marks |-> marks, content |-> children]

NullNode == [Node("", FALSE, Undefined, "", "", FALSE, << >>, NoMarks, NoContent)
                EXCEPT !.js = "null"]
StringDoc == [Node("", FALSE, Undefined, "", "", TRUE, <<"a">>, NoMarks, NoContent)
                EXCEPT !.js = "string"]

Mark(type, hasAttrs, href) == [type |-> type, hasAttrs |-> hasAttrs, href |-> href]

Marks == {Mark("strong", FALSE, ""), Mark("link", TRUE, "u"), Mark("link", TRUE, ""),
          Mark("link", FALSE, "")}

\* the characters of a text node
Texts == {<<"<", "a", ">">>}

TextNodes ==
    {Node("text", FALSE, Undefined, "", "", TRUE, t, NoMarks, NoContent) : t \in Texts}
    \cup {Node("text", FALSE, Undefined, "", "", TRUE, <<"a">>, <<m>>, NoContent) : m \in Marks}
    \cup {Node("text", FALSE, Undefined, "", "", FALSE, << >>, NoMarks, NoContent)}

MediaNodes ==
    {Node("media", TRUE, Undefined, "file", "f1", FALSE, << >>, NoMarks, NoContent),
     Node("media", TRUE, Undefined, "link", "f1", FALSE, << >>, NoMarks, NoContent),
     Node("media", FALSE, Undefined, "", "", FALSE, << >>, NoMarks, NoContent)}

InlineNodes == TextNodes \cup MediaNodes \cup {NullNode}

Levels == {Undefined, 2}

\* the content of a block node: no node, or one inline node
InlineContents == {NoContent} \cup {<<n>> : n \in InlineNodes}

BlockNodes ==
    {Node(type, FALSE, Undefined, "", "", FALSE, << >>, NoMarks, c) :
        type \in {"paragraph", "panel"}, c \in InlineContents}
    \cup {Node("heading", TRUE, l, "", "", FALSE, << >>, NoMarks, c) :
             l \in Levels, c \in InlineContents}
    \cup {Node("heading", FALSE, Undefined, "", "", FALSE, << >>, NoMarks, c) :
             c \in InlineContents}

\* the arguments of the converter: null, a string, or a document of up to n
\* block nodes
Docs(n) ==
    {NullNode, StringDoc}
    \cup {Node("doc", FALSE, Undefined, "", "", FALSE, << >>, NoMarks, c) :
             c \in SeqsUpTo(BlockNodes, n)}

\* the call returns the html
Returns(html) == [raised |-> FALSE, html |-> html]
\* the call throws: a TypeError of a property read of undefined
Throws == [raised |-> TRUE, html |-> << >>]

\* line 1007: .replace(/</g, "&lt;").replace(/>/g, "&gt;")
Escape(text) ==
    [i \in DOMAIN text |-> IF text[i] = "<" THEN "&lt;"
                           ELSE IF text[i] = ">" THEN "&gt;" ELSE text[i]]

\* line 1017: the anchor of a link mark with attrs
Anchor(href) == IF href = "" THEN "<a href=\"undefined\">" ELSE "<a href=\"u\">"

\* lines 1008-1020: the marks of a text node, applied in order
RECURSIVE ApplyMarks(_, _, _)
ApplyMarks(text, marks, i) ==
    IF i > Len(marks) THEN Returns(text)
    ELSE LET mark == marks[i]
         IN IF mark.type = "strong"
            THEN ApplyMarks(<<"<strong>">> \o text \o <<"</strong>">>, marks, i + 1)
            ELSE IF mark.type = "em"
            THEN ApplyMarks(<<"<em>">> \o text \o <<"</em>">>, marks, i + 1)
            ELSE IF mark.type = "code"
            THEN ApplyMarks(<<"<code>">> \o text \o <<"</code>">>, marks, i + 1)
            ELSE IF mark.type = "link"
            THEN IF mark.hasAttrs
                 THEN ApplyMarks(<<Anchor(mark.href)>> \o text \o <<"</a>">>, marks, i + 1)
                 ELSE Throws
            ELSE ApplyMarks(text, marks, i + 1)

\* line 1030: `<h${level}>` and `</h${level}>`
HeadingTags(level) ==
    IF level = 1 THEN <<"<h1>", "</h1>">> ELSE <<"<h2>", "</h2>">>

\* the node types that wrap their content in one element
Wrappers == {"bulletList", "orderedList", "listItem", "codeBlock", "blockquote",
             "table", "tableRow", "tableHeader", "tableCell", "mediaSingle"}

WrapperTags(type) ==
    CASE type = "bulletList" -> <<"<ul>", "</ul>">>
      [] type = "orderedList" -> <<"<ol>", "</ol>">>
      [] type = "listItem" -> <<"<li>", "</li>">>
      [] type = "codeBlock" -> <<"<pre><code>", "</code></pre>">>
      [] type = "blockquote" -> <<"<blockquote>", "</blockquote>">>
      [] type = "table" -> <<"<table><tbody>", "</tbody></table>">>
      [] type = "tableRow" -> <<"<tr>", "</tr>">>
      [] type = "tableHeader" -> <<"<th>", "</th>">>
      [] type = "tableCell" -> <<"<td>", "</td>">>
      [] type = "mediaSingle" -> <<"<p>", "</p>">>

RECURSIVE processNode(_)
RECURSIVE MapJoin(_, _)
\* line 998: node.content.map(processNode).join("")
MapJoin(children, i) ==
    IF i > Len(children) THEN Returns(<< >>)
    ELSE LET first == processNode(children[i])
         IN IF first.raised THEN Throws
            ELSE LET rest == MapJoin(children, i + 1)
                 IN IF rest.raised THEN Throws
                    ELSE Returns(first.html \o rest.html)

\* lines 993-1054
processNode(node) ==
    IF node.js = "null" \/ node.type = "" THEN Returns(<< >>)
    ELSE LET joined == MapJoin(node.content, 1)
         IN IF joined.raised THEN Throws
            ELSE IF node.type = "doc" THEN joined
            ELSE IF node.type = "paragraph"
            THEN Returns(<<"<p>">>
                         \o (IF joined.html = << >> THEN <<"&nbsp;">> ELSE joined.html)
                         \o <<"</p>">>)
            ELSE IF node.type = "text"
            THEN IF node.hasText THEN ApplyMarks(Escape(node.text), node.marks, 1)
                 ELSE Throws
            ELSE IF node.type = "heading"
            THEN IF node.hasAttrs
                 THEN LET level == IF node.level = Undefined THEN 1 ELSE node.level
                      IN Returns(<<HeadingTags(level)[1]>> \o joined.html
                                 \o <<HeadingTags(level)[2]>>)
                 ELSE Throws
            ELSE IF node.type = "hardBreak" THEN Returns(<<"<br />">>)
            ELSE IF node.type \in Wrappers
            THEN Returns(<<WrapperTags(node.type)[1]>> \o joined.html
                         \o <<WrapperTags(node.type)[2]>>)
            ELSE IF node.type = "media"
            THEN IF node.hasAttrs
                 THEN IF node.mediaType = "file" /\ node.alt # ""
                      THEN Returns(<<"{{jira-attachment-placeholder:" \o node.alt \o "}}">>)
                      ELSE Returns(<< >>)
                 ELSE Throws
            ELSE joined

\* lines 985-1057
convertAtlassianDocumentToHtml(d) ==
    IF d.js = "null" THEN Returns(<< >>)
    ELSE IF d.js = "string" THEN Returns(<<"<p>">> \o d.text \o <<"</p>">>)
    ELSE processNode(d)

InitConv ==
    /\ RelIdle
    /\ MigIdle
    /\ SubIdle
    /\ FldIdle
    /\ AllIdle
    /\ doc \in Docs(MaxBlocks)
    /\ converted = << >>
    /\ convPc = "call"

\* one call of the converter
Convert ==
    /\ convPc = "call"
    /\ converted' = convertAtlassianDocumentToHtml(doc)
    /\ convPc' = "returned"
    /\ UNCHANGED doc
    /\ UNCHANGED <<relVars, migVars, subVars, fldVars, allVars>>

NextConv == Convert

SpecConv == InitConv /\ [][NextConv]_vars

\* the document is one heading that has attrs without a level
HeadingWithoutLevel ==
    /\ doc.js = "object"
    /\ Len(doc.content) = 1
    /\ doc.content[1].type = "heading"
    /\ doc.content[1].hasAttrs
    /\ doc.content[1].level = Undefined

\* C23: the converter returns for every tree, those with a heading or a
\* media node without attrs, a link mark without attrs or a text node
\* without text among them, and a heading without a level is rendered as a
\* heading of level 1.
ConverterNeverRaises ==
    convPc = "returned" =>
        /\ ~converted.raised
        /\ HeadingWithoutLevel =>
              converted.html[1] = "<h1>" /\ converted.html[Len(converted.html)] = "</h1>"

(***************************************************************************)
(* The mapping of status and priority: lines 686-712 of migrate-all.js and *)
(* getWorkPackageStatusId, getWorkPackagePriorityId of the client.         *)
(***************************************************************************)
\* lines 40-48
statusMapping ==
    [s \in {"To Do", "In Progress", "In Review", "Done", "Closed", "Resolved", "Live"} |->
        IF s = "Resolved" THEN "Done" ELSE IF s = "Live" THEN "Closed" ELSE s]

\* lines 51-57
priorityMapping ==
    [p \in {"Highest", "High", "Medium", "Low", "Lowest"} |->
        CASE p = "Highest" -> "Critical"
          [] p = "High" -> "High"
          [] p = "Medium" -> "Normal"
          [] p = "Low" -> "Low"
          [] p = "Lowest" -> "Trivial"]

\* the status names of the issues: two with an entry in the table, one without
JiraStatuses == {"To Do", "Resolved", "Backlog"}
\* the priority names of the issues; "" is an issue without a priority
NoPriority == ""
JiraPriorities == {NoPriority, "High", "Blocker"}

\* String.prototype.toLowerCase on the names in use
toLowerCase(name) ==
    CASE name = "New" -> "new"
      [] name = "To Do" -> "to do"
      [] name = "Done" -> "done"
      [] name = "Closed" -> "closed"
      [] name = "In Progress" -> "in progress"
      [] name = "In Review" -> "in review"
      [] name = "Normal" -> "normal"
      [] name = "High" -> "high"
      [] name = "Low" -> "low"
      [] name = "Critical" -> "critical"
      [] name = "Trivial" -> "trivial"
      [] OTHER -> name

StatusNames == {"New", "To Do", "done"}
StatusId(name) == IF name = "New" THEN 1 ELSE IF name = "To Do" THEN 2 ELSE 3

\* the vocabularies of statuses: one status or more, each name once
StatusVocabularies ==
    {v \in SeqsUpTo([id : 1..3, name : StatusNames], Cardinality(StatusNames)) :
        /\ v # << >>
        /\ \A i \in DOMAIN v : v[i].id = StatusId(v[i].name)
        /\ \A i, j \in DOMAIN v : v[i].name = v[j].name => i = j}

PriorityNames == {"Normal", "High", "Low"}
PriorityId(name) == IF name = "Normal" THEN 1 ELSE IF name = "High" THEN 2 ELSE 3

\* the vocabularies of priorities: one of the priorities is the default
PriorityVocabularies ==
    UNION {{SetToSeq({[id |-> PriorityId(n), name |-> n, isDefault |-> (n = d)] : n \in N}) :
               d \in N} : N \in (SUBSET PriorityNames) \ {{}}}

\* Array.prototype.find: the index of the first element of array that is
\* in Passing, 0 when there is none
Find(array, Passing) ==
    IF \E i \in DOMAIN array : array[i] \in Passing
    THEN CHOOSE i \in DOMAIN array :
             array[i] \in Passing /\ \A j \in 1..(i - 1) : array[j] \notin Passing
    ELSE 0

\* lines 389-405
getWorkPackageStatusId(jiraStatus) ==
    LET mappedStatus == IF jiraStatus \in DOMAIN statusMapping
                        THEN statusMapping[jiraStatus] ELSE "New"
        same == {s \in Range(workPackageStatuses) :
                    toLowerCase(s.name) = toLowerCase(mappedStatus)}
        statusObj == Find(workPackageStatuses, same)
    IN IF statusObj = 0 THEN workPackageStatuses[1].id
       ELSE workPackageStatuses[statusObj].id

\* lines 407-425
getWorkPackagePriorityId(jiraPriority) ==
    IF jiraPriority = NoPriority THEN Null
    ELSE LET mappedPriority == IF jiraPriority \in DOMAIN priorityMapping
                               THEN priorityMapping[jiraPriority] ELSE "Normal"
             same == {p \in Range(workPackagePriorities) :
                         toLowerCase(p.name) = toLowerCase(mappedPriority)}
             isDefault == {p \in Range(workPackagePriorities) : p.isDefault}
             priorityObj == Find(workPackagePriorities, same)
             defaultObj == Find(workPackagePriorities, isDefault)
         IN IF priorityObj = 0
            THEN IF defaultObj = 0 THEN Undefined
                 ELSE workPackagePriorities[defaultObj].id
            ELSE workPackagePriorities[priorityObj].id

InitFld ==
    /\ RelIdle
    /\ MigIdle
    /\ SubIdle
    /\ ConvIdle
    /\ AllIdle
    /\ workPackageStatuses \in StatusVocabularies
    /\ workPackagePriorities \in PriorityVocabularies
    /\ jiraFields \in SeqsUpTo([status : JiraStatuses, priority : JiraPriorities], MaxFields)
    /\ unknownStatusCount = 0
    /\ links = << >>
    /\ fi = 1
    /\ fldPc = "loop"

\* lines 686-712: the status and the priority of the payload of one issue
MapFields ==
    /\ fldPc = "loop"
    /\ fi <= Len(jiraFields)
    /\ LET opStatusId == getWorkPackageStatusId(jiraFields[fi].status)
       IN /\ unknownStatusCount' =
                IF opStatusId = getWorkPackageStatusId("unknown")
                THEN unknownStatusCount + 1 ELSE unknownStatusCount
          /\ links' = Append(links,
                  [status |-> opStatusId,
                   priority |-> getWorkPackagePriorityId(jiraFields[fi].priority)])
    /\ fi' = fi + 1
    /\ UNCHANGED <<workPackageStatuses, workPackagePriorities, jiraFields, fldPc>>
    /\ UNCHANGED <<relVars, migVars, subVars, convVars, allVars>>

\* line 981: the loop is over, the summary is printed
FieldsDone ==
    /\ fldPc = "loop"
    /\ fi > Len(jiraFields)
    /\ fldPc' = "done"
    /\ UNCHANGED <<workPackageStatuses, workPackagePriorities, jiraFields,
                   unknownStatusCount, links, fi>>
    /\ UNCHANGED <<relVars, migVars, subVars, convVars, allVars>>

NextFld == MapFields \/ FieldsDone

SpecFld == InitFld /\ [][NextFld]_vars

\* the issues whose status has no entry in statusMapping
Unmapped == {i \in DOMAIN jiraFields : jiraFields[i].status \notin DOMAIN statusMapping}

\* C24: whatever statuses the target system has, the count of UNKNOWN
\* statuses of the summary is the number of issues whose status has no entry
\* in statusMapping.
UnknownStatusCount ==
    fldPc = "done" => unknownStatusCount = Cardinality(Unmapped)

\* the id of the priority the target system declares as default
DefaultPriorityId ==
    (CHOOSE p \in Range(workPackagePriorities) : p.isDefault).id

\* C25: the payload of an issue without a priority, or whose priority has no
\* entry in priorityMapping, refers to the default priority of the target
\* system, and every payload refers to a priority the target system has.
PriorityDefault ==
    \A i \in DOMAIN links :
        /\ jiraFields[i].priority \notin DOMAIN priorityMapping =>
              links[i].priority = DefaultPriorityId
        /\ \E p \in Range(workPackagePriorities) : p.id = links[i].priority

(***************************************************************************)
(* Properties of the attribution of the writes.                            *)
(***************************************************************************)
\* the author of the attachment or comment that log entry i uploads or posts
AuthorOf(i) ==
    LET c == content[log[i].key]
    IN IF log[i].op = "upload"
       THEN c.attAuthors[CHOOSE n \in DOMAIN c.atts : c.atts[n] = log[i].arg]
       ELSE c.cmtAuthors[CHOOSE n \in DOMAIN c.cmts : c.cmts[n] = log[i].arg]

\* a live run of migrate-all.js in which no call has failed
LiveNoFault ==
    /\ mPc \in {"running", "idle"}
    /\ impl = "migrate-all.js"
    /\ isProd
    /\ migFaults = 0

\* C26: in a live run every upload and every comment is made as the user
\* mapped from the author of that attachment or comment, as the default
\* user when the author has no mapped user, and an issue with a comment or
\* an attachment without an author or without a mapped user does not end
\* as Errored.
AuthoringAttribution ==
    LiveNoFault =>
        /\ \A i \in DOMAIN log :
              log[i].op \in {"upload", "comment"} => log[i].actor = OpUser(AuthorOf(i))
        /\ \A p \in DOMAIN outcome :
              content[batch[p]].creator # NoUser => outcome[p] # "Errored"

\* C27: in a live run an issue whose creator is absent or has no mapped user
\* is created or updated all the same and does not end as Errored.
CreatorOptional ==
    LiveNoFault =>
        \A p \in DOMAIN outcome :
            /\ content[batch[p]].creator \notin DOMAIN userMapping
            /\ \A n \in DOMAIN content[batch[p]].cmtAuthors :
                  content[batch[p]].cmtAuthors[n] # NoUser
            => outcome[p] \in {"Created", "Updated", "Skipped"}

(***************************************************************************)
(* Properties of a resumed run.                                            *)
(***************************************************************************)
\* the work packages of the target system that carry key k
TargetsOf(k) == {i \in DOMAIN target : target[i].key = k}

\* a live run has stopped before it returned, and a live incremental run
\* over the same batch has returned after it
Resumed ==
    /\ mPc = "idle"
    /\ runNo >= 2
    /\ ~prev.returned
    /\ skipUpdates
    /\ Live

\* C28: after a live run that stopped at any point and a live incremental
\* run over the same batch that has returned, every issue of the batch has
\* one work package, and the map the second run returns holds its id.
ResumeAfterCrash ==
    Resumed =>
        \A k \in Range(batch) :
            /\ Cardinality(TargetsOf(k)) = 1
            /\ Has(migMap, k)
            /\ migMap[k] \in TargetsOf(k)

(***************************************************************************)
(* migrateAll, lines 10-89 of migrate-all.js: the issues of every project, *)
(* then the parents of every project, then the relationships of every      *)
(* project.  An event records one run of a phase for one project.          *)
(***************************************************************************)
Projects == SeqsUpTo([matched : BOOLEAN], MaxProjects)

Event(ph, project, step, result) ==
    [phase |-> ph, project |-> project, step |-> step, result |-> result]

InitAll ==
    /\ RelIdle
    /\ MigIdle
    /\ SubIdle
    /\ ConvIdle
    /\ FldIdle
    /\ jiraProjects \in Projects
    /\ stage = "issues"
    /\ pj = 1
    /\ events = << >>

\* lines 28-57: one round of the first loop.  migrateIssues returns when its
\* loop has dealt with every issue; it throws when a call before the loop
\* fails, and migrateAll catches that and goes on
MigrateIssuesOfProject ==
    /\ stage = "issues"
    /\ pj <= Len(jiraProjects)
    /\ IF jiraProjects[pj].matched
       THEN \E result \in {"returned", "threw"} :
                events' = Append(events, Event("issues", pj, "migrateIssues", result))
       ELSE UNCHANGED events
    /\ pj' = pj + 1
    /\ UNCHANGED <<jiraProjects, stage>>
    /\ UNCHANGED <<relVars, migVars, subVars, convVars, fldVars>>

\* a first loop that is left as soon as one project has been migrated
IssuesDoneEarly ==
    /\ stage = "issues"
    /\ pj > 1
    /\ stage' = "parents"
    /\ pj' = 1
    /\ UNCHANGED <<jiraProjects, events>>
    /\ UNCHANGED <<relVars, migVars, subVars, convVars, fldVars>>

\* line 57: the first loop is over
IssuesDone ==
    /\ stage = "issues"
    /\ pj > Len(jiraProjects)
    /\ stage' = "parents"
    /\ pj' = 1
    /\ UNCHANGED <<jiraProjects, events>>
    /\ UNCHANGED <<relVars, migVars, subVars, convVars, fldVars>>

\* lines 62-72: one round of the second loop; execSync throws when the child
\* process fails, which nothing catches
MigrateParentsOfProject ==
    /\ stage = "parents"
    /\ pj <= Len(jiraProjects)
    /\ IF jiraProjects[pj].matched
       THEN \E result \in {"returned", "threw"} :
                /\ events' = Append(events, Event("parents", pj, "migrate-parents", result))
                /\ stage' = IF result = "threw" THEN "failed" ELSE stage
       ELSE UNCHANGED <<events, stage>>
    /\ pj' = pj + 1
    /\ UNCHANGED jiraProjects
    /\ UNCHANGED <<relVars, migVars, subVars, convVars, fldVars>>

\* line 72: the second loop is over
ParentsDone ==
    /\ stage = "parents"
    /\ pj > Len(jiraProjects)
    /\ stage' = "relationships"
    /\ pj' = 1
    /\ UNCHANGED <<jiraProjects, events>>
    /\ UNCHANGED <<relVars, migVars, subVars, convVars, fldVars>>

\* lines 77-87: one round of the third loop.  The child process calls
\* createRelationships, lines 481-502: the first pass over the issues, then
\* the retry sweep; it may stop after the first pass
MigrateRelationshipsOfProject ==
    /\ stage = "relationships"
    /\ pj <= Len(jiraProjects)
    /\ IF jiraProjects[pj].matched
       THEN \E result \in {"returned", "threw"} :
                /\ events' = events
                      \o <<Event("relationships", pj, "firstPass", "returned")>>
                      \o (IF result = "returned"
                          THEN <<Event("relationships", pj, "retry", "returned")>>
                          ELSE << >>)
                /\ stage' = IF result = "threw" THEN "failed" ELSE stage
       ELSE UNCHANGED <<events, stage>>
    /\ pj' = pj + 1
    /\ UNCHANGED jiraProjects
    /\ UNCHANGED <<relVars, migVars, subVars, convVars, fldVars>>

\* lines 87-89: the third loop is over
RelationshipsDone ==
    /\ stage = "relationships"
    /\ pj > Len(jiraProjects)
    /\ stage' = "done"
    /\ UNCHANGED <<jiraProjects, pj, events>>
    /\ UNCHANGED <<relVars, migVars, subVars, convVars, fldVars>>

NextAll ==
    \/ MigrateIssuesOfProject
    \/ IssuesDone
    \/ MigrateParentsOfProject
    \/ ParentsDone
    \/ MigrateRelationshipsOfProject
    \/ RelationshipsDone

SpecAll == InitAll /\ [][NextAll]_vars

\* the place of a phase in the order of migrateAll
Rank(ph) == IF ph = "issues" THEN 1 ELSE IF ph = "parents" THEN 2 ELSE 3

\* the projects migrateAll does not skip
Matched == {p \in DOMAIN jiraProjects : jiraProjects[p].matched}

\* the phase ph of project p has ended before event j
EndedBefore(ph, p, j) ==
    \E i \in 1..(j - 1) : events[i].phase = ph /\ events[i].project = p

ExistedBefore(n, fromId, toId, type) ==
    \E m \in 1..(n - 1) :
        /\ requests[m].result = "created"
        /\ requests[m].from = fromId
        /\ requests[m].to = toId
        /\ requests[m].type = type

\* request n found an edge of its type in the declared direction or, when
\* its type is one of Symmetric, in the reverse direction
EdgeExisted(n, Symmetric) ==
    \/ ExistedBefore(n, requests[n].from, requests[n].to, requests[n].type)
    \/ /\ requests[n].type \in Symmetric
       /\ ExistedBefore(n, requests[n].to, requests[n].from, requests[n].type)

RelationTypes ==
    {"blocks", "blocked", "relates", "includes", "partof", "duplicates", "duplicated"}

\* the calls are made for no source link of a batch
NoFact == [type |-> "", out |-> "", in |-> ""]

InitCheck ==
    /\ issues = << >>
    /\ srcLinks = {}
    /\ created = [k \in AllKeys |-> 1]
    /\ embedCreated = TRUE
    /\ suppliedMap = << >>
    /\ suppliedAs = "object"
    /\ issueToWorkPackageMap = << >>
    /\ missingRelationships = << >>
    /\ retryRelationships = << >>
    /\ relPc = "check"
    /\ ri = 0
    /\ rj = 0
    /\ rk = 0
    /\ relFaults = 0
    /\ parents \in ParentLinks
    /\ edges = {}
    /\ requests = << >>
    /\ stillMissing = << >>
    /\ MigIdle
    /\ SubIdle
    /\ ConvIdle
    /\ FldIdle
    /\ AllIdle

\* one call createRelationship(fromId, toId, type), lines 255-323
CreateRelationshipCall ==
    /\ relPc = "check"
    /\ Len(requests) < MaxCalls
    /\ \E fromId \in WpIds, toId \in WpIds, type \in RelationTypes, a \in Answers :
          /\ fromId # toId
          /\ createRelationship(fromId, toId, type, "", NoFact, "direct", a)
    /\ UNCHANGED <<issues, srcLinks, created, embedCreated, suppliedMap, suppliedAs, parents,
                   issueToWorkPackageMap, missingRelationships,
                   retryRelationships, relPc, ri, rj, rk, stillMissing>>
    /\ UNCHANGED <<migVars, subVars, convVars, fldVars, allVars>>

NextCheck == CreateRelationshipCall

SpecCheck == InitCheck /\ [][NextCheck]_vars

\* the work package whose parent link request n is about, and the parent
\* the request expects it to have
Inspected(n) == IF requests[n].type = "partof" THEN requests[n].from ELSE requests[n].to
ExpectedParent(n) == IF requests[n].type = "partof" THEN requests[n].to ELSE requests[n].from

\* C31: for a partof request (from, to) the work package inspected is from
\* and the parent expected is to, for an includes request it is to and from;
\* when the parent lookup answers and the inspected work package has the
\* expected parent, no relation is posted, and a request that is not posted
\* found that parent or an edge of its type in its direction.
HierarchyCheckDirection ==
    \A n \in DOMAIN requests :
        requests[n].type \in {"partof", "includes"} =>
            /\ (requests[n].parentOk /\ parents[Inspected(n)] = ExpectedParent(n))
                  => ~requests[n].posted
            /\ ~requests[n].posted =>
                  \/ parents[Inspected(n)] = ExpectedParent(n)
                  \/ ExistedBefore(n, requests[n].from, requests[n].to, requests[n].type)

\* of two requests in opposite directions on one target, a partof request is
\* held back by the parent of its from and a partof request the other way,
\* from the parent, is posted; so for includes
HierarchyCheckDirectionWitness ==
    \E n, m \in DOMAIN requests :
        /\ requests[n].type \in {"partof", "includes"}
        /\ requests[m].type = requests[n].type
        /\ requests[m].from = requests[n].to
        /\ requests[m].to = requests[n].from
        /\ parents[Inspected(n)] = ExpectedParent(n)
        /\ ~requests[n].posted
        /\ requests[m].posted

(***************************************************************************)
(* The module's map during the resolution of the relationships.            *)
(***************************************************************************)
\* a step of the first pass or of the sweep leaves the map as it was
MapKeptByStep ==
    relPc \in {"issue", "link", "retry", "sweep"} =>
        issueToWorkPackageMap' = issueToWorkPackageMap

\* C32: from the first handleRelationships call to the end of
\* retryMissingRelationships no step changes issueToWorkPackageMap, so the
\* retry sweep resolves the keys the first pass resolved.
MapReadOnlyInResolution == [][MapKeptByStep]_vars

\* a call is over whose first pass deferred a triple, its from key resolved
\* and its to key not, and whose sweep found the to key still missing
MapReadOnlyInResolutionWitness ==
    /\ relPc = "done"
    /\ \E n \in DOMAIN stillMissing :
          /\ Has(issueToWorkPackageMap, stillMissing[n].fromKey)
          /\ ~Has(issueToWorkPackageMap, stillMissing[n].toKey)

(***************************************************************************)
(* The queries of a dry run.                                               *)
(***************************************************************************)
\* the run asked the target for call about issue k
Asked(call, k) == \E r \in DOMAIN reads : reads[r] = Read(call, k)

\* C33: a run of either mode lists the attachments of the work package of
\* every issue with attachments that it processes to the end, and the
\* comments of every such issue with comments: a dry run asks as a live
\* run does.
DryRunReadsAsLive ==
    \A p \in DOMAIN outcome :
        outcome[p] \in {"Created", "Updated"} =>
            /\ Len(content[batch[p]].atts) > 0 =>
                  Asked("getExistingAttachments", batch[p])
            /\ Len(content[batch[p]].cmts) > 0 =>
                  Asked("getExistingComments", batch[p])

(***************************************************************************)
(* The two passes over a description: the converter renders its inline     *)
(* nodes, then the placeholders are substituted.                           *)
(***************************************************************************)
\* lines 820, 1047: the placeholder syntax for a filename
PlaceholderText(filename) == "{{jira-attachment-placeholder:" \o filename \o "}}"

\* the inline nodes of a description: a text node with ordinary text, a text
\* node whose text is the placeholder syntax for a filename, a media node
SourceNodes ==
    {Node("text", FALSE, Undefined, "", "", TRUE, <<"t">>, NoMarks, NoContent)}
    \cup {Node("text", FALSE, Undefined, "", "", TRUE, <<PlaceholderText(f)>>,
               NoMarks, NoContent) : f \in Filenames}
    \cup {Node("media", TRUE, Undefined, "file", f, FALSE, << >>, NoMarks, NoContent) :
             f \in Filenames}

\* what String.prototype.replace sees in a piece of the rendered body
Lex(piece) ==
    IF \E f \in Filenames : piece = PlaceholderText(f)
    THEN Placeholder(CHOOSE f \in Filenames : piece = PlaceholderText(f))
    ELSE [kind |-> "text", v |-> piece]

\* line 697: payload.description.raw of a description of these nodes
Rendered(nodes) == [i \in DOMAIN nodes |-> Lex(processNode(nodes[i]).html[1])]

InitInline ==
    /\ RelIdle
    /\ MigIdle
    /\ ConvIdle
    /\ FldIdle
    /\ AllIdle
    /\ description \in SeqsUpTo(SourceNodes, MaxBody)
    /\ rawBody = Rendered(description)
    /\ attachmentIdMap \in Tables
    /\ finalDescription = rawBody
    /\ sk = 1
    /\ subPc = "loop"

NextInline == SubstituteEntry \/ SubstituteDone

SpecInline == InitInline /\ [][NextInline]_vars

\* C34: what a text node was rendered to is never replaced by an image tag,
\* the text that spells the placeholder syntax for a filename included:
\* only the placeholders emitted for media nodes are substituted.
TextNeverSubstituted ==
    \A i \in DOMAIN description :
        description[i].type = "text" => finalDescription[i] = rawBody[i]

(***************************************************************************)
(* The mapping handed to createRelationships.                              *)
(***************************************************************************)
\* C35: before the first handleRelationships call the module's map answers,
\* for every entry (key, id) of the mapping supplied as second argument,
\* a plain object or a Map, id for key.
SuppliedMappingResolvable ==
    relPc \notin {"load", "off", "check"} =>
        \A k \in DOMAIN suppliedMap :
            Has(issueToWorkPackageMap, k) /\ issueToWorkPackageMap[k] = suppliedMap[k]

(***************************************************************************)
(* What is deferred.                                                       *)
(***************************************************************************)
\* the triples deferred: those waiting for the sweep and those the sweep took
Deferred == Range(missingRelationships) \cup Range(retryRelationships)

EndedAs(S) == {p \in DOMAIN outcome : outcome[p] \in S}

\* C37: every issue of the batch ends in one of Created, Updated, Skipped and
\* Errored, each counter counts the issues of its states, and when
\* migrateIssues returns processed + skipped + errors is the size of the
\* batch; no issue is counted as processed and as errored.
RunAccounting ==
    /\ \A p \in DOMAIN outcome :
          outcome[p] \in {"Created", "Updated", "Skipped", "Errored"}
    /\ mPc \in {"running", "idle"} /\ runNo > 0 =>
          /\ counts.processed = Cardinality(EndedAs({"Created", "Updated"}))
          /\ counts.skipped = Cardinality(EndedAs({"Skipped"}))
          /\ counts.errors = Cardinality(EndedAs({"Errored"}))
    /\ mPc = "idle" /\ runNo > 0 =>
          /\ Len(outcome) = Len(batch)
          /\ counts.processed + counts.skipped + counts.errors = Len(batch)

\* a run of two issues has returned: one ended in the catch, the other was
\* processed to the end
RunAccountingWitness ==
    /\ mPc = "idle"
    /\ runNo > 0
    /\ Len(batch) = 2
    /\ counts.errors = 1
    /\ counts.processed = 1

(***************************************************************************)
(* The entries of the map a run returns.                                   *)
(***************************************************************************)
\* the create or update of the issue at position p returned
WriteReturned(p) ==
    \E i \in DOMAIN log : log[i].pos = p /\ IsWrite(log[i]) /\ log[i].ok

\* the issue at position p was skipped or written
Recorded(p) == outcome[p] = "Skipped" \/ WriteReturned(p)

\* the id the target gave for the issue at position p: the id of the cached
\* work package of a skipped issue, of the work package written otherwise
RecordedId(p) ==
    IF outcome[p] = "Skipped" THEN cache[batch[p]]
    ELSE log[CHOOSE i \in DOMAIN log : log[i].pos = p /\ IsWrite(log[i])].wp

\* the positions of key k that were skipped or written
RecordedAt(k) == {p \in DOMAIN outcome : batch[p] = k /\ Recorded(p)}

\* the last of a set of positions
Last(P) == CHOOSE p \in P : \A q \in P : q <= p

\* C38: when a live run returns, the map has an entry for a key if and only
\* if the issue was skipped or its create or update returned, also when a
\* later step of the issue failed; the entry is the id the target gave for
\* the issue, a work package with this key, and a key whose write failed has
\* no entry.
MapMembership ==
    mPc = "idle" /\ runNo > 0 /\ Live =>
        \A k \in AllKeys :
            /\ Has(migMap, k) <=> RecordedAt(k) # {}
            /\ Has(migMap, k) =>
                  /\ migMap[k] = RecordedId(Last(RecordedAt(k)))
                  /\ target[migMap[k]].key = k

\* a live run has returned in which one issue ended in the catch after its
\* write had returned, and the map has its key
MapMembershipWitness ==
    /\ mPc = "idle"
    /\ runNo > 0
    /\ Live
    /\ \E p \in DOMAIN outcome :
          /\ outcome[p] = "Errored"
          /\ WriteReturned(p)
          /\ Has(migMap, batch[p])

\* C39: in every state of a run, live or dry, the map holds no two keys with
\* the same id.
MapInjective ==
    \A a, b \in DOMAIN migMap : a # b => migMap[a] # migMap[b]

====
